---------------------------- MODULE Spec2Model ----------------------------
(***************************************************************************)
(* A model of the bdk_wallet multi-keychain wallet: the Wallet aggregate   *)
(* (KeyRing, LocalChain, IndexedTxGraph, locked outpoints, stage), the     *)
(* ChangeSet / Merge hierarchy, PersistedWallet and its persister, the     *)
(* SQLite persistence of the keyring and locked-outpoint changesets, and   *)
(* the wallet-event diff.                                                  *)
(***************************************************************************)
EXTENDS Integers, Sequences, FiniteSets, TLC

(***************************************************************************)
(* Bounds of the model.                                                    *)
(***************************************************************************)
MaxHeight == 2
MaxTime == 2
MaxIndex == 1
MaxOps == 3

(***************************************************************************)
(* Universes.  NoneVal stands for Rust's Option::None.                     *)
(***************************************************************************)
NoneVal == "None"
Networks == {"Regtest", "Bitcoin"}
Keychains == {"k1", "k2"}
Descriptors == {"d1", "d2"}
GenesisHash == "G"
Hashes == {"A", "B"}
Heights == 0 .. MaxHeight
Times == 1 .. MaxTime
Indices == 0 .. MaxIndex

\* The Ord of keychain identifiers (the key order of every BTreeMap<K, _>).
KeychainRank(k) == CASE k = "k1" -> 1 [] k = "k2" -> 2 [] OTHER -> 3

\* A set of keychains as a sequence in BTreeMap (ascending key) order.
RECURSIVE KeychainSeq(_)
KeychainSeq(S) ==
    IF S = {} THEN <<>>
    ELSE LET m == CHOOSE k \in S : \A x \in S : KeychainRank(k) <= KeychainRank(x)
         IN  <<m>> \o KeychainSeq(S \ {m})

\* Option<u32> of a derivation index is modelled as -1 (None) or the index.
NoIndex == 0 - 1

(***************************************************************************)
(* BTreeMap helpers.  A map is a TLA+ function whose DOMAIN is its key set.*)
(***************************************************************************)
EmptyMap == [x \in {} |-> NoneVal]

\* BTreeMap::extend: entries of b overwrite entries of a with the same key.
Extend(a, b) ==
    [x \in (DOMAIN a) \cup (DOMAIN b) |-> IF x \in DOMAIN b THEN b[x] ELSE a[x]]

\* Per-key maximum (last_seen, last_evicted, last_revealed merges).
MergeMax(a, b) ==
    [x \in (DOMAIN a) \cup (DOMAIN b) |->
        IF x \in DOMAIN a /\ x \in DOMAIN b
        THEN (IF a[x] >= b[x] THEN a[x] ELSE b[x])
        ELSE IF x \in DOMAIN b THEN b[x] ELSE a[x]]

\* Per-key minimum (first_seen merge).
MergeMin(a, b) ==
    [x \in (DOMAIN a) \cup (DOMAIN b) |->
        IF x \in DOMAIN a /\ x \in DOMAIN b
        THEN (IF a[x] <= b[x] THEN a[x] ELSE b[x])
        ELSE IF x \in DOMAIN b THEN b[x] ELSE a[x]]

\* The element of a one-element set: The({F(x) : x \in {v}}) is F(v) with v
\* computed once.
The(S) == CHOOSE x \in S : TRUE

Restrict(m, S) == [x \in (DOMAIN m) \cap S |-> m[x]]


(***************************************************************************)
(* The fixed universe of transactions.  An outpoint is <<txid, vout>>; a   *)
(* script pubkey is <<keychain, index>> when a wallet descriptor derives   *)
(* it and ForeignSpk otherwise.  T1 and T2 spend the same foreign outpoint *)
(* (T2 replaces T1), T3 spends T1's output and pays a foreign script, T4   *)
(* does not touch the wallet.                                              *)
(***************************************************************************)
ForeignSpk == "foreign"
Txids == {"T1", "T2", "T3", "T4"}
FundingOutPoint == <<"F0", 0>>

TxInput(t) ==
    CASE t = "T1" -> <<FundingOutPoint>>
      [] t = "T2" -> <<FundingOutPoint>>
      [] t = "T3" -> << <<"T1", 0>> >>
      [] OTHER    -> << <<"F1", 0>> >>

TxOutput(t) ==
    CASE t = "T1" -> << <<"k1", 0>> >>
      [] t = "T2" -> << <<"k1", 1>> >>
      [] t = "T3" -> << ForeignSpk >>
      [] OTHER    -> << ForeignSpk >>

OutPointsOf(t) == {<<t, i - 1>> : i \in DOMAIN TxOutput(t)}
SpentBy(t) == {TxInput(t)[i] : i \in DOMAIN TxInput(t)}
SpkOf(op) == IF op[1] \in Txids THEN TxOutput(op[1])[op[2] + 1] ELSE ForeignSpk
OutPoints == (UNION {OutPointsOf(t) : t \in Txids}) \cup {FundingOutPoint}

\* Anchors are ConfirmationBlockTime values; the block id <<height, hash>>
\* identifies them (the confirmation time is a function of the block).
BlockIds == (1 .. MaxHeight) \X Hashes
\* Option<block>::None.
NoBlock == <<NoIndex, NoneVal>>

(***************************************************************************)
(* LocalChain.  A chain is a function from Heights to a block hash or      *)
(* NoneVal (no checkpoint at that height).  A local_chain::ChangeSet is a  *)
(* map height -> hash, or NoneVal to remove the checkpoint.                *)
(***************************************************************************)
GenesisChain == [h \in Heights |-> IF h = 0 THEN GenesisHash ELSE NoneVal]
\* A chain without checkpoints; as Update::chain it stands for None.
NoChain == [h \in Heights |-> NoneVal]

ChainHeights(c) == {h \in Heights : c[h] # NoneVal}
TipHeight(c) == CHOOSE h \in ChainHeights(c) : \A g \in ChainHeights(c) : g <= h
\* CheckPoint::block_id of the tip.
Tip(c) == <<TipHeight(c), c[TipHeight(c)]>>

\* A variant of from_genesis_hash that returns an empty changeset.
from_genesis_hash_unstaged(hash) ==
    [chain |-> [h \in Heights |-> IF h = 0 THEN hash ELSE NoneVal],
     changeset |-> EmptyMap]

\* LocalChain::from_genesis_hash: the chain and its initial changeset.
from_genesis_hash(hash) ==
    [chain |-> [h \in Heights |-> IF h = 0 THEN hash ELSE NoneVal],
     changeset |-> [h \in {0} |-> hash]]

ApplyChainChangeSet(c, cs) ==
    [h \in Heights |-> IF h \in DOMAIN cs THEN cs[h] ELSE c[h]]

\* LocalChain::from_changeset: fails (MissingGenesis) without a block at 0.
ChainFromChangeSet(cs) ==
    IF 0 \in DOMAIN cs /\ cs[0] # NoneVal
    THEN [ok |-> TRUE, chain |-> ApplyChainChangeSet(NoChain, cs)]
    ELSE [ok |-> FALSE, chain |-> GenesisChain]

(***************************************************************************)
(* merge_chains: walk both chains from the tip down.  st carries the loop  *)
(* variables of the Rust function.                                         *)
(***************************************************************************)
MergeStart ==
    [cs |-> EmptyMap, pot |-> {}, prev_orig |-> NoIndex, prev_update |-> FALSE,
     poa |-> FALSE, inv |-> FALSE, err |-> FALSE, stop |-> FALSE]

MergeStep(orig, upd, h, st) ==
    LET o == orig[h]
        u == upd[h]
        moreUpdate == \E g \in Heights : g < h /\ upd[g] # NoneVal
    IN  IF st.err \/ st.stop \/ (o = NoneVal /\ u = NoneVal) THEN st
        ELSE IF o = NoneVal THEN
            \* update block that does not exist in the original chain
            [st EXCEPT !.cs = Extend(@, [x \in {h} |-> u]), !.prev_update = TRUE]
        ELSE IF u = NoneVal THEN
            \* original block that is not in the update
            [st EXCEPT !.pot = @ \cup {h}, !.inv = FALSE, !.prev_orig = h,
                       !.stop = ~moreUpdate]
        ELSE IF o = u THEN
            \* point of agreement
            IF ~st.inv /\ ~st.poa /\ st.prev_orig # NoIndex /\ st.prev_update
            THEN [st EXCEPT !.err = TRUE]
            ELSE [st EXCEPT !.poa = TRUE, !.inv = FALSE,
                            !.prev_update = TRUE, !.prev_orig = h]
        ELSE
            \* invalidation: take the update's hash, purge the blocks above
            [st EXCEPT !.cs = Extend(Extend(@, [x \in {h} |-> u]),
                                     [x \in st.pot |-> NoneVal]),
                       !.pot = {}, !.inv = TRUE,
                       !.prev_update = TRUE, !.prev_orig = h]

RECURSIVE MergeLoop(_, _, _, _)
MergeLoop(orig, upd, h, st) ==
    IF h < 0 THEN st
    ELSE MergeLoop(orig, upd, h - 1, MergeStep(orig, upd, h, st))

\* Result of LocalChain::apply_update(tip): Err(CannotConnectError) or the
\* changeset and the new chain.
merge_chains(orig, upd) ==
    LET st == MergeLoop(orig, upd, MaxHeight, MergeStart)
        fail == st.err \/ (~st.inv /\ ~st.poa /\ st.prev_orig # NoIndex)
    IN  IF fail
        THEN [ok |-> FALSE, changeset |-> EmptyMap, chain |-> orig]
        ELSE [ok |-> TRUE, changeset |-> st.cs,
              chain |-> ApplyChainChangeSet(orig, st.cs)]

(***************************************************************************)
(* TxGraph.  The graph is kept in the shape of its own changeset: the full *)
(* transactions, the floating txouts, the anchors <<block id, txid>>, and  *)
(* the last_seen / first_seen / last_evicted timestamps.                   *)
(***************************************************************************)
EmptyGraph ==
    [txs |-> {}, txouts |-> {}, anchors |-> {},
     last_seen |-> EmptyMap, first_seen |-> EmptyMap, last_evicted |-> EmptyMap]

\* tx_graph::ChangeSet::merge, also TxGraph::apply_changeset.
\* A variant of the graph merge in which the last timestamp wins.
GraphMerge_last_wins(a, b) ==
    [txs |-> a.txs \cup b.txs,
     txouts |-> a.txouts \cup b.txouts,
     anchors |-> a.anchors \cup b.anchors,
     last_seen |-> Extend(a.last_seen, b.last_seen),
     first_seen |-> MergeMin(a.first_seen, b.first_seen),
     last_evicted |-> Extend(a.last_evicted, b.last_evicted)]

GraphMerge(a, b) ==
    [txs |-> a.txs \cup b.txs,
     txouts |-> a.txouts \cup b.txouts,
     anchors |-> a.anchors \cup b.anchors,
     last_seen |-> MergeMax(a.last_seen, b.last_seen),
     first_seen |-> MergeMin(a.first_seen, b.first_seen),
     last_evicted |-> MergeMax(a.last_evicted, b.last_evicted)]

\* A variant of MapDiff that reports every entry of the new map as changed.
MapDiff_all_entries(old, new) == new

MapDiff(old, new) ==
    Restrict(new, {x \in DOMAIN new : x \notin DOMAIN old \/ old[x] # new[x]})

\* The changeset the TxGraph insert_* methods return: what actually changed.
GraphDiff(old, new) ==
    [txs |-> new.txs \ old.txs,
     txouts |-> new.txouts \ old.txouts,
     anchors |-> new.anchors \ old.anchors,
     last_seen |-> MapDiff(old.last_seen, new.last_seen),
     first_seen |-> MapDiff(old.first_seen, new.first_seen),
     last_evicted |-> MapDiff(old.last_evicted, new.last_evicted)]

\* A TxUpdate carries txs, txouts, anchors, seen_ats and evicted_ats.
EmptyTxUpdate ==
    [txs |-> {}, txouts |-> {}, anchors |-> {},
     seen_ats |-> EmptyMap, evicted_ats |-> EmptyMap]

\* TxGraph::apply_update: insert_tx, insert_txout, insert_anchor,
\* insert_seen_at (last_seen max-wins, first_seen min-wins), insert_evicted_at.
GraphApplyUpdate(g, u) ==
    GraphMerge(g, [txs |-> u.txs, txouts |-> u.txouts, anchors |-> u.anchors,
                   last_seen |-> u.seen_ats, first_seen |-> u.seen_ats,
                   last_evicted |-> u.evicted_ats])

\* TxGraph::direct_conflicts: other full transactions spending an input of t.
direct_conflicts(g, t) ==
    {s \in g.txs \ {t} : SpentBy(s) \cap SpentBy(t) # {}}

Parents(g, t) == {p \in g.txs : \E op \in SpentBy(t) : op[1] = p}
Children(g, t) == {s \in g.txs : \E op \in SpentBy(s) : op[1] = t}

RECURSIVE AncestorsIncl(_, _)
AncestorsIncl(g, t) ==
    {t} \cup UNION {AncestorsIncl(g, p) : p \in Parents(g, t)}

RECURSIVE DescendantsIncl(_, _)
DescendantsIncl(g, t) ==
    {t} \cup UNION {DescendantsIncl(g, s) : s \in Children(g, t)}

(***************************************************************************)
(* KeychainTxOutIndex.  last_revealed maps a descriptor id to the last     *)
(* revealed derivation index; descs is the keyring's map keychain ->       *)
(* descriptor.                                                             *)
(***************************************************************************)
DEFAULT_LOOKAHEAD == 25

LastRevealed(lr, d) == IF d \in DOMAIN lr THEN lr[d] ELSE NoIndex

\* A script is in the index when its keychain is tracked and its derivation
\* index is at most lookahead past the last revealed one.
SpkIndexed(descs, lr, spk) ==
    /\ spk # ForeignSpk
    /\ spk[1] \in DOMAIN descs
    /\ spk[2] <= LastRevealed(lr, descs[spk[1]]) + DEFAULT_LOOKAHEAD

\* Indexer::index_tx over a set of transactions: an output paying a tracked
\* script past the last revealed index reveals up to that index.
IndexTxs(descs, lr, txs) ==
    LET hits == {op \in UNION {OutPointsOf(t) : t \in txs} :
                    SpkIndexed(descs, lr, SpkOf(op))}
        ds == {descs[SpkOf(op)[1]] : op \in hits}
        top(d) == CHOOSE i \in {SpkOf(op)[2] : op \in {o \in hits : descs[SpkOf(o)[1]] = d}} :
                    \A o \in hits : descs[SpkOf(o)[1]] = d => SpkOf(o)[2] <= i
    IN  MergeMax(lr, [d \in ds |-> top(d)])

\* The outpoints the index holds: outputs of graph transactions and floating
\* txouts that pay a tracked script.
OwnedOutPoints(descs, lr, g) ==
    {op \in (UNION {OutPointsOf(t) : t \in g.txs}) \cup g.txouts :
        SpkIndexed(descs, lr, SpkOf(op))}

\* The scripts under which the index holds an output: SpkTxOutIndex removes
\* them from its unused set when it scans the output.
ScriptsWithOutputs(descs, lr, g) == {SpkOf(op) : op \in OwnedOutPoints(descs, lr, g)}

\* KeychainTxOutIndex::is_tx_relevant.
is_tx_relevant(descs, lr, g, t) ==
    \/ \E op \in OutPointsOf(t) : SpkIndexed(descs, lr, SpkOf(op))
    \/ SpentBy(t) \cap OwnedOutPoints(descs, lr, g) # {}

(***************************************************************************)
(* Canonicalization (TxGraph::list_canonical_txs).  Anchored transactions  *)
(* are visited by descending anchor height, then seen transactions by      *)
(* descending last_seen, then the anchored transactions none of whose      *)
(* anchors is in the best chain.                                           *)
(***************************************************************************)
TxRank(t) == CASE t = "T1" -> 1 [] t = "T2" -> 2 [] t = "T3" -> 3 [] OTHER -> 4
RankBase == Cardinality(Txids) + 1

AnchorsOf(g, t) == {a[1] : a \in {x \in g.anchors : x[2] = t}}
BlockInChain(c, b) == c[b[1]] = b[2]
BestAnchors(g, c, t) == {b \in AnchorsOf(g, t) : BlockInChain(c, b)}
MaxAnchor(S) == CHOOSE b \in S : \A x \in S : x[1] <= b[1]
\* The first anchor in BTreeSet order.
MinAnchor(S) == CHOOSE b \in S : \A x \in S : b[1] <= x[1]
HighestAnchorHeight(g, t) == MaxAnchor(AnchorsOf(g, t))[1]

\* A set of <<key, txid>> pairs as a sequence of txids by descending key.
RECURSIVE DescSeq(_)
DescSeq(P) ==
    IF P = {} THEN <<>>
    ELSE LET m == CHOOSE p \in P : \A q \in P : q[1] <= p[1]
         IN  <<m[2]>> \o DescSeq(P \ {m})

AnchoredOrder(g) ==
    DescSeq({<<HighestAnchorHeight(g, t) * RankBase + TxRank(t), t>> :
                t \in {x \in g.txs : AnchorsOf(g, x) # {}}})

\* Seen transactions; an eviction at or after last_seen hides the tx.
SeenOrder(g) ==
    DescSeq({<<g.last_seen[t] * RankBase + TxRank(t), t>> :
                t \in {x \in g.txs \cap DOMAIN g.last_seen :
                         x \notin DOMAIN g.last_evicted
                         \/ g.last_evicted[x] < g.last_seen[x]}})

EmptyCanon == [canonical |-> EmptyMap, not_canonical |-> {}]

\* A variant of mark_canonical that does not exclude the conflicts.
mark_canonical_keep_conflicts(g, st, t, reason) ==
    LET anc == AncestorsIncl(g, t) \ DOMAIN st.canonical
    IN  [canonical |-> Extend(st.canonical,
              [a \in anc |-> IF a = t THEN reason
                             ELSE [reason EXCEPT !.descendant = t]]),
         not_canonical |-> st.not_canonical]

\* CanonicalIter::mark_canonical: the tx and its not yet canonical ancestors
\* become canonical; their conflicts and the conflicts' descendants become
\* not canonical.  A self double spend leaves the state unchanged.
mark_canonical(g, st, t, reason) ==
    LET anc == AncestorsIncl(g, t) \ DOMAIN st.canonical
        confl == UNION {DescendantsIncl(g, s) :
                          s \in UNION {direct_conflicts(g, a) : a \in anc}}
    IN  IF confl \cap anc # {} THEN st
        ELSE [canonical |-> Extend(st.canonical,
                  [a \in anc |-> IF a = t THEN reason
                                 ELSE [reason EXCEPT !.descendant = t]]),
              not_canonical |-> st.not_canonical \cup confl]

is_canonicalized(st, t) == t \in DOMAIN st.canonical \/ t \in st.not_canonical

ScanAnchor(g, c, st, t) ==
    IF is_canonicalized(st, t) \/ BestAnchors(g, c, t) = {} THEN st
    ELSE mark_canonical(g, st, t,
            [kind |-> "Anchor", anchor |-> MinAnchor(BestAnchors(g, c, t)),
             last_seen |-> 0, descendant |-> NoneVal])

ScanSeen(g, c, st, t) ==
    IF is_canonicalized(st, t) THEN st
    ELSE mark_canonical(g, st, t,
            [kind |-> "Mempool", anchor |-> NoBlock,
             last_seen |-> g.last_seen[t], descendant |-> NoneVal])

ScanLeftover(g, c, st, t) ==
    IF is_canonicalized(st, t) \/ BestAnchors(g, c, t) # {} THEN st
    ELSE mark_canonical(g, st, t,
            [kind |-> "Block", anchor |-> NoBlock,
             last_seen |-> 0, descendant |-> NoneVal])

RECURSIVE CanonPhase(_, _, _, _, _)
CanonPhase(g, c, st, order, phase) ==
    IF order = <<>> THEN st
    ELSE The({CanonPhase(g, c, nx, Tail(order), phase) :
                nx \in {CASE phase = 1 -> ScanAnchor(g, c, st, Head(order))
                          [] phase = 2 -> ScanSeen(g, c, st, Head(order))
                          [] OTHER     -> ScanLeftover(g, c, st, Head(order))}})

Canonicalize(g, c) ==
    LET s1 == CanonPhase(g, c, EmptyCanon, AnchoredOrder(g), 1)
        s2 == CanonPhase(g, c, s1, SeenOrder(g), 2)
    IN  CanonPhase(g, c, s2, AnchoredOrder(g), 3).canonical

\* ChainPosition of a canonical transaction.  A transitively anchored tx
\* with an anchor of its own in the best chain reports its own anchor.  A
\* timestamp of 0 stands for None.
ChainPosition(g, c, t, reason) ==
    IF reason.kind = "Anchor"
    THEN IF reason.descendant = NoneVal \/ BestAnchors(g, c, t) = {}
         THEN [kind |-> "Confirmed", anchor |-> reason.anchor,
               transitively |-> reason.descendant,
               first_seen |-> 0, last_seen |-> 0]
         ELSE [kind |-> "Confirmed", anchor |-> MinAnchor(BestAnchors(g, c, t)),
               transitively |-> NoneVal, first_seen |-> 0, last_seen |-> 0]
    ELSE [kind |-> "Unconfirmed", anchor |-> NoBlock, transitively |-> NoneVal,
          first_seen |-> IF t \in DOMAIN g.first_seen THEN g.first_seen[t] ELSE 0,
          last_seen |-> reason.last_seen]

\* TxGraph::list_canonical_txs: txid -> chain position.
list_canonical_txs(g, c) ==
    LET canon == Canonicalize(g, c)
    IN  [t \in DOMAIN canon |-> ChainPosition(g, c, t, canon[t])]

(***************************************************************************)
(* ChangeSets and Merge.                                                   *)
(***************************************************************************)
EmptyKeyRingChangeSet ==
    [network |-> NoneVal, descriptors |-> EmptyMap, default_keychain |-> NoneVal]

\* A variant of the keyring merge in which the last network wins.
KeyRingMerge_last_network(a, b) ==
    [network |-> IF b.network # NoneVal THEN b.network ELSE a.network,
     descriptors |-> Extend(a.descriptors, b.descriptors),
     default_keychain |-> IF b.default_keychain # NoneVal
                          THEN b.default_keychain ELSE a.default_keychain]

\* A variant of the keyring merge in which a default keychain that is merged
\* again is taken back.
KeyRingMerge_toggle_default(a, b) ==
    [network |-> IF b.network # NoneVal /\ a.network = NoneVal
                 THEN b.network ELSE a.network,
     descriptors |-> Extend(a.descriptors, b.descriptors),
     default_keychain |-> IF b.default_keychain = NoneVal THEN a.default_keychain
                          ELSE IF b.default_keychain = a.default_keychain THEN NoneVal
                          ELSE b.default_keychain]

\* keyring::ChangeSet::merge: the first network wins, descriptors extend,
\* a new default keychain takes precedence.
KeyRingMerge(a, b) ==
    [network |-> IF b.network # NoneVal /\ a.network = NoneVal
                 THEN b.network ELSE a.network,
     descriptors |-> Extend(a.descriptors, b.descriptors),
     default_keychain |-> IF b.default_keychain # NoneVal
                          THEN b.default_keychain ELSE a.default_keychain]

KeyRingIsEmpty(a) ==
    a.network = NoneVal /\ a.descriptors = EmptyMap /\ a.default_keychain = NoneVal

EmptyChangeSet ==
    [keyring |-> EmptyKeyRingChangeSet, local_chain |-> EmptyMap,
     tx_graph |-> EmptyGraph, indexer |-> EmptyMap, locked_outpoints |-> EmptyMap]

\* A variant of the merge that drops the unlock markers.
Merge_drop_unlocks(a, b) ==
    [keyring |-> KeyRingMerge(a.keyring, b.keyring),
     local_chain |-> Extend(a.local_chain, b.local_chain),
     tx_graph |-> GraphMerge(a.tx_graph, b.tx_graph),
     indexer |-> MergeMax(a.indexer, b.indexer),
     locked_outpoints |->
        Restrict(Extend(a.locked_outpoints, b.locked_outpoints),
                 {op \in DOMAIN Extend(a.locked_outpoints, b.locked_outpoints) :
                     Extend(a.locked_outpoints, b.locked_outpoints)[op]})]

\* wallet ChangeSet::merge: field by field.
Merge(a, b) ==
    [keyring |-> KeyRingMerge(a.keyring, b.keyring),
     local_chain |-> Extend(a.local_chain, b.local_chain),
     tx_graph |-> GraphMerge(a.tx_graph, b.tx_graph),
     indexer |-> MergeMax(a.indexer, b.indexer),
     locked_outpoints |-> Extend(a.locked_outpoints, b.locked_outpoints)]

\* A variant of is_empty that does not look at the locked outpoints.
is_empty_without_locks(cs) ==
    /\ KeyRingIsEmpty(cs.keyring)
    /\ cs.local_chain = EmptyMap
    /\ cs.tx_graph = EmptyGraph
    /\ cs.indexer = EmptyMap

is_empty(cs) ==
    /\ KeyRingIsEmpty(cs.keyring)
    /\ cs.local_chain = EmptyMap
    /\ cs.tx_graph = EmptyGraph
    /\ cs.indexer = EmptyMap
    /\ cs.locked_outpoints = EmptyMap

(***************************************************************************)
(* KeyRing.                                                                *)
(***************************************************************************)
initial_changeset(keyring) ==
    [network |-> keyring.network, descriptors |-> keyring.descriptors,
     default_keychain |-> NoneVal]

\* A KeyRing is built apart from any wallet.  Its keychains and descriptors
\* are drawn from universes one larger than the wallet's, so that a ring can
\* hold two entries and still be offered a third.
RingKeychains == Keychains \cup {"k3"}
\* What a caller hands over as `impl IntoWalletDescriptor`: three public
\* descriptors, the private-key form of d1 and a multipath descriptor.
DescriptorInputs == Descriptors \cup {"d3", "d1_prv", "multipath"}

\* IntoWalletDescriptor::into_wallet_descriptor: parses the input into its
\* public descriptor; a private-key form yields the same public descriptor
\* as the public form.
into_wallet_descriptor(input) == IF input = "d1_prv" THEN "d1" ELSE input

\* check_wallet_descriptor: rejects multipath descriptors.
check_wallet_descriptor(descriptor) == descriptor # "multipath"

\* A variant of from_changeset that takes a changeset without a network for
\* an empty one.
KeyRingFromChangeSet_none_without_network(cs) ==
    IF cs.network = NoneVal THEN [ok |-> TRUE, none |-> TRUE]
    ELSE IF \E k \in DOMAIN cs.descriptors : ~check_wallet_descriptor(cs.descriptors[k])
    THEN [ok |-> FALSE, none |-> FALSE, err |-> "Descriptor"]
    ELSE [ok |-> TRUE, none |-> FALSE,
          keyring |-> [network |-> cs.network, descriptors |-> cs.descriptors]]

\* KeyRing::from_changeset without check parameters: Ok(None) (none is
\* TRUE) for an empty changeset, an error, or Ok(Some(keyring)).
KeyRingFromChangeSet(cs) ==
    IF KeyRingIsEmpty(cs) THEN [ok |-> TRUE, none |-> TRUE]
    ELSE IF cs.network = NoneVal
    THEN [ok |-> FALSE, none |-> FALSE, err |-> "MissingNetwork"]
    ELSE IF \E k \in DOMAIN cs.descriptors : ~check_wallet_descriptor(cs.descriptors[k])
    THEN [ok |-> FALSE, none |-> FALSE, err |-> "Descriptor"]
    ELSE [ok |-> TRUE, none |-> FALSE,
          keyring |-> [network |-> cs.network, descriptors |-> cs.descriptors]]

\* The value of `ring` while no KeyRing has been constructed.
NoRing == [network |-> NoneVal, descriptors |-> EmptyMap]

\* KeyRing::new.
KeyRing_new(network, keychain, input) ==
    LET descriptor == into_wallet_descriptor(input)
    IN  IF ~check_wallet_descriptor(descriptor)
        THEN [ok |-> FALSE, err |-> "Descriptor", keyring |-> NoRing]
        ELSE [ok |-> TRUE, err |-> NoneVal,
              keyring |-> [network |-> network,
                           descriptors |-> [k \in {keychain} |-> descriptor]]]

\* Variants of the loop: the keychain's own entry always decides, or another
\* keychain's entry always decides, whatever the key order.
first_conflict_any_order(descriptors, keychain, descriptor) ==
    LET c == {keychain_old \in DOMAIN descriptors :
                \/ descriptors[keychain_old] = descriptor /\ keychain_old # keychain
                \/ keychain_old = keychain /\ descriptors[keychain_old] # descriptor}
    IN  IF c = {} THEN NoneVal
        ELSE IF keychain \in c THEN "KeychainAlreadyExists" ELSE "DescAlreadyExists"

first_conflict_desc_first(descriptors, keychain, descriptor) ==
    LET c == {keychain_old \in DOMAIN descriptors :
                \/ descriptors[keychain_old] = descriptor /\ keychain_old # keychain
                \/ keychain_old = keychain /\ descriptors[keychain_old] # descriptor}
    IN  IF c = {} THEN NoneVal
        ELSE IF c \ {keychain} # {} THEN "DescAlreadyExists" ELSE "KeychainAlreadyExists"

\* The loop of add_descriptor walks the entries in key order and returns at
\* the first conflicting one, an entry that holds the descriptor under
\* another keychain or the keychain with another descriptor:
\* DescAlreadyExists when that entry is another keychain's,
\* KeychainAlreadyExists when it is the keychain's own.  NoneVal when the
\* loop ends without a return.
first_conflict(descriptors, keychain, descriptor) ==
    LET c == {keychain_old \in DOMAIN descriptors :
                \/ descriptors[keychain_old] = descriptor /\ keychain_old # keychain
                \/ keychain_old = keychain /\ descriptors[keychain_old] # descriptor}
        first == CHOOSE k \in c : \A x \in c : KeychainRank(k) <= KeychainRank(x)
    IN  IF c = {} THEN NoneVal
        ELSE IF first # keychain THEN "DescAlreadyExists" ELSE "KeychainAlreadyExists"

\* Variants of add_descriptor: one that inserts without the loop, one that
\* inserts before it returns the error.
add_descriptor_unchecked(keyring, keychain, input) ==
    LET descriptor == into_wallet_descriptor(input)
    IN  [ok |-> TRUE, err |-> NoneVal,
         keyring |-> [keyring EXCEPT !.descriptors =
                          Extend(@, [k \in {keychain} |-> descriptor])],
         changeset |-> [EmptyKeyRingChangeSet EXCEPT
                          !.descriptors = [k \in {keychain} |-> descriptor]]]

add_descriptor_insert_first(keyring, keychain, input) ==
    LET descriptor == into_wallet_descriptor(input)
        inserted == [keyring EXCEPT !.descriptors =
                        Extend(@, [k \in {keychain} |-> descriptor])]
    IN  IF ~check_wallet_descriptor(descriptor)
        THEN [ok |-> FALSE, err |-> "Descriptor", keyring |-> keyring,
              changeset |-> EmptyKeyRingChangeSet]
        ELSE IF first_conflict(keyring.descriptors, keychain, descriptor) # NoneVal
        THEN [ok |-> FALSE,
              err |-> first_conflict(keyring.descriptors, keychain, descriptor),
              keyring |-> inserted, changeset |-> EmptyKeyRingChangeSet]
        ELSE [ok |-> TRUE, err |-> NoneVal, keyring |-> inserted,
              changeset |-> [EmptyKeyRingChangeSet EXCEPT
                               !.descriptors = [k \in {keychain} |-> descriptor]]]

\* KeyRing::add_descriptor: the ring after the call, and the changeset or
\* the error it returns.
add_descriptor(keyring, keychain, input) ==
    LET descriptor == into_wallet_descriptor(input)
    IN  IF ~check_wallet_descriptor(descriptor)
        THEN [ok |-> FALSE, err |-> "Descriptor", keyring |-> keyring,
              changeset |-> EmptyKeyRingChangeSet]
        ELSE IF first_conflict(keyring.descriptors, keychain, descriptor) # NoneVal
        THEN [ok |-> FALSE,
              err |-> first_conflict(keyring.descriptors, keychain, descriptor),
              keyring |-> keyring, changeset |-> EmptyKeyRingChangeSet]
        ELSE [ok |-> TRUE, err |-> NoneVal,
              keyring |-> [keyring EXCEPT !.descriptors =
                               Extend(@, [k \in {keychain} |-> descriptor])],
              changeset |-> [EmptyKeyRingChangeSet EXCEPT
                               !.descriptors = [k \in {keychain} |-> descriptor]]]

\* KeyRing::new_with_descriptors: KeyRing::new with the first entry in key
\* order, then add_descriptor with each of the others; the first failing
\* call ends the construction with its error.
new_with_descriptors(network, descriptors) ==
    LET RECURSIVE add_all(_, _)
        add_all(keyring, order) ==
            IF order = <<>> THEN [ok |-> TRUE, err |-> NoneVal, keyring |-> keyring]
            ELSE LET r == add_descriptor(keyring, Head(order), descriptors[Head(order)])
                 IN  IF ~r.ok THEN [ok |-> FALSE, err |-> r.err, keyring |-> NoRing]
                     ELSE add_all(r.keyring, Tail(order))
        order == KeychainSeq(DOMAIN descriptors)
        first == KeyRing_new(network, Head(order), descriptors[Head(order)])
    IN  IF DOMAIN descriptors = {}
        THEN [ok |-> FALSE, err |-> "DescMissing", keyring |-> NoRing]
        ELSE IF ~first.ok THEN first
        ELSE add_all(first.keyring, Tail(order))

(***************************************************************************)
(* The Wallet.  A wallet is a record of its keyring, chain, tx graph, the  *)
(* index's last revealed map, the locked outpoints and the stage.          *)
(***************************************************************************)
stage(w, cs) == [w EXCEPT !.stage = Merge(@, cs)]

create_with_params(keyring) ==
    LET g == from_genesis_hash(GenesisHash)
    IN  [keyring |-> keyring,
         chain |-> g.chain,
         graph |-> EmptyGraph,
         last_revealed |-> EmptyMap,
         used |-> {},
         locked_outpoints |-> {},
         stage |-> [EmptyChangeSet EXCEPT
                      !.keyring = initial_changeset(keyring),
                      !.local_chain = g.changeset]]

\* make_indexed_graph: the graph and index of the changeset, re-indexed;
\* what re-indexing changes is staged.
load_with_params(cs) ==
    IF is_empty(cs) THEN [ok |-> FALSE, err |-> "None"]
    ELSE LET kr == KeyRingFromChangeSet(cs.keyring)
             lc == ChainFromChangeSet(cs.local_chain)
         IN  IF ~kr.ok THEN [ok |-> FALSE, err |-> kr.err]
             ELSE IF kr.none THEN [ok |-> FALSE, err |-> "EmptyKeyring"]
             ELSE IF ~lc.ok THEN [ok |-> FALSE, err |-> "MissingGenesis"]
             ELSE LET lr == IndexTxs(kr.keyring.descriptors, cs.indexer,
                                     cs.tx_graph.txs)
                  IN [ok |-> TRUE,
                      wallet |->
                        [keyring |-> kr.keyring,
                         chain |-> lc.chain,
                         graph |-> cs.tx_graph,
                         last_revealed |-> lr,
                         used |-> ScriptsWithOutputs(kr.keyring.descriptors,
                                                     lr, cs.tx_graph),
                         locked_outpoints |->
                            {op \in DOMAIN cs.locked_outpoints :
                                cs.locked_outpoints[op]},
                         stage |-> [EmptyChangeSet EXCEPT
                                      !.indexer = MapDiff(cs.indexer, lr)]]]

(***************************************************************************)
(* Wallet mutators.  Each operator returns the wallet after the call.      *)
(***************************************************************************)
IndexerChangeSet(lr) == [EmptyChangeSet EXCEPT !.indexer = lr]
GraphChangeSet(g) == [EmptyChangeSet EXCEPT !.tx_graph = g]

\* The index of the AddressInfo that reveal_next_address returns: the one
\* after the last revealed index of the keychain's descriptor.
reveal_next_index(w, k) ==
    LastRevealed(w.last_revealed, w.keyring.descriptors[k]) + 1

\* KeychainTxOutIndex::reveal_next_spk through Wallet::reveal_next_address;
\* an untracked keychain returns None and changes nothing.
reveal_next_address(w, k) ==
    IF k \notin DOMAIN w.keyring.descriptors THEN w
    ELSE LET d == w.keyring.descriptors[k]
             nxt == LastRevealed(w.last_revealed, d) + 1
             cs == [x \in {d} |-> nxt]
         IN  stage([w EXCEPT !.last_revealed = MergeMax(@, cs)],
                   IndexerChangeSet(cs))

\* The script <<k, i>> is used when the index holds an output paying it.
SpkUsed(w, k, i) ==
    \E op \in OwnedOutPoints(w.keyring.descriptors, w.last_revealed, w.graph) :
        SpkOf(op) = <<k, i>>

\* SpkTxOutIndex::is_used: the script is not in the unused set.  The wallet
\* field used holds the indexed scripts that are not in the unused set.
is_used(w, k, i) == <<k, i>> \in w.used

\* A variant of UnusedRevealed that skips the lowest of several candidates.
UnusedRevealed_skip_lowest(w, k) ==
    LET u == {i \in 0 .. LastRevealed(w.last_revealed, w.keyring.descriptors[k]) :
                 ~is_used(w, k, i)}
    IN  IF Cardinality(u) > 1 THEN u \ {CHOOSE i \in u : \A j \in u : i <= j} ELSE u

UnusedRevealed(w, k) ==
    {i \in 0 .. LastRevealed(w.last_revealed, w.keyring.descriptors[k]) :
        ~is_used(w, k, i)}

\* Wallet::next_unused_address: the lowest revealed unused index, revealing
\* a new one only when there is none.
next_unused_address(w, k) ==
    IF k \notin DOMAIN w.keyring.descriptors THEN w
    ELSE IF UnusedRevealed(w, k) # {} THEN w
    ELSE reveal_next_address(w, k)

\* The index of the AddressInfo that next_unused_address returns.
next_unused_index(w, k) ==
    IF UnusedRevealed(w, k) # {}
    THEN CHOOSE i \in UnusedRevealed(w, k) : \A j \in UnusedRevealed(w, k) : i <= j
    ELSE reveal_next_index(w, k)

\* Wallet::mark_used: removes the script from the unused set; nothing
\* changes when the script is not indexed or is not in the unused set.
mark_used(w, k, i) ==
    IF SpkIndexed(w.keyring.descriptors, w.last_revealed, <<k, i>>) /\ ~is_used(w, k, i)
    THEN [w EXCEPT !.used = @ \cup {<<k, i>>}]
    ELSE w

\* A variant of unmark_used that does not look at the indexed outputs.
unmark_used_unconditional(w, k, i) == [w EXCEPT !.used = @ \ {<<k, i>>}]

\* Wallet::unmark_used: puts the script back into the unused set unless it
\* is not indexed or an output is indexed under it.
unmark_used(w, k, i) ==
    IF ~SpkIndexed(w.keyring.descriptors, w.last_revealed, <<k, i>>) THEN w
    ELSE IF SpkUsed(w, k, i) THEN w
    ELSE [w EXCEPT !.used = @ \ {<<k, i>>}]

\* Wallet::cancel_tx: unmark_used for every output of the transaction that
\* pays an indexed script.
cancel_tx(w, t) ==
    LET RECURSIVE unmark_all(_, _)
        unmark_all(ww, n) ==
            IF n > Len(TxOutput(t)) THEN ww
            ELSE LET spk == TxOutput(t)[n]
                 IN  unmark_all(
                        IF SpkIndexed(ww.keyring.descriptors, ww.last_revealed, spk)
                        THEN unmark_used(ww, spk[1], spk[2]) ELSE ww,
                        n + 1)
    IN  unmark_all(w, 1)

\* Wallet::is_outpoint_locked.
is_outpoint_locked(w, op) == op \in w.locked_outpoints

\* A variant of lock_outpoint that stages the lock whether or not the
\* outpoint was locked already.
lock_outpoint_always_staged(w, op) ==
    stage([w EXCEPT !.locked_outpoints = @ \cup {op}],
          [EmptyChangeSet EXCEPT !.locked_outpoints = [x \in {op} |-> TRUE]])

\* A variant of lock_outpoint that does not stage the lock.
lock_outpoint_unstaged(w, op) ==
    [w EXCEPT !.locked_outpoints = @ \cup {op}]

lock_outpoint(w, op) ==
    IF op \in w.locked_outpoints THEN w
    ELSE stage([w EXCEPT !.locked_outpoints = @ \cup {op}],
               [EmptyChangeSet EXCEPT !.locked_outpoints = [x \in {op} |-> TRUE]])

\* A variant of unlock_outpoint that stages no unlock marker.
unlock_outpoint_unstaged(w, op) ==
    [w EXCEPT !.locked_outpoints = @ \ {op}]

unlock_outpoint(w, op) ==
    IF op \notin w.locked_outpoints THEN w
    ELSE stage([w EXCEPT !.locked_outpoints = @ \ {op}],
               [EmptyChangeSet EXCEPT !.locked_outpoints = [x \in {op} |-> FALSE]])

\* IndexedTxGraph::apply_update on the wallet: every transaction of the
\* update is inserted and indexed.
GraphAndIndexUpdate(w, u) ==
    LET g2 == GraphApplyUpdate(w.graph, u)
        lr2 == IndexTxs(w.keyring.descriptors, w.last_revealed, g2.txs \ w.graph.txs)
    IN  [wallet |-> [w EXCEPT !.graph = g2, !.last_revealed = lr2,
                              !.used = @ \cup ScriptsWithOutputs(
                                                w.keyring.descriptors, lr2, g2)],
         changeset |-> [EmptyChangeSet EXCEPT
                          !.tx_graph = GraphDiff(w.graph, g2),
                          !.indexer = MapDiff(w.last_revealed, lr2)]]

insert_txout(w, op) ==
    LET r == GraphAndIndexUpdate(w, [EmptyTxUpdate EXCEPT !.txouts = {op}])
    IN  stage(r.wallet, r.changeset)

\* A variant of reveal_to_target_multi that stores the target even when it is
\* lower than the last revealed index.
reveal_to_target_multi_overwrite(w, targets) ==
    LET ks == (DOMAIN targets) \cap (DOMAIN w.keyring.descriptors)
        want == [d \in {w.keyring.descriptors[k] : k \in ks} |->
                   targets[CHOOSE k \in ks : w.keyring.descriptors[k] = d]]
        lr2 == Extend(w.last_revealed, want)
    IN  [wallet |-> [w EXCEPT !.last_revealed = lr2],
         changeset |-> IndexerChangeSet(MapDiff(w.last_revealed, lr2))]

\* KeychainTxOutIndex::reveal_to_target_multi: targets of tracked keychains
\* raise last_revealed, never lower it.
reveal_to_target_multi(w, targets) ==
    LET ks == (DOMAIN targets) \cap (DOMAIN w.keyring.descriptors)
        want == [d \in {w.keyring.descriptors[k] : k \in ks} |->
                   targets[CHOOSE k \in ks : w.keyring.descriptors[k] = d]]
        lr2 == MergeMax(w.last_revealed, want)
    IN  [wallet |-> [w EXCEPT !.last_revealed = lr2],
         changeset |-> IndexerChangeSet(MapDiff(w.last_revealed, lr2))]

\* A variant of apply_update that reveals and inserts before it applies the
\* chain, so that a CannotConnectError leaves the update half applied.
apply_update_chain_last(w, u) ==
    LET r2 == reveal_to_target_multi(w, u.last_active_indices)
        r3 == GraphAndIndexUpdate(r2.wallet, u.tx_update)
        w3 == stage(r3.wallet, Merge(r2.changeset, r3.changeset))
        m == IF u.chain = NoChain
             THEN [ok |-> TRUE, changeset |-> EmptyMap, chain |-> w.chain]
             ELSE merge_chains(w.chain, u.chain)
    IN  IF ~m.ok THEN [ok |-> FALSE, wallet |-> w3]
        ELSE [ok |-> TRUE,
              wallet |-> stage([w3 EXCEPT !.chain = m.chain],
                               [EmptyChangeSet EXCEPT !.local_chain = m.changeset])]

\* Wallet::apply_update.  The chain is applied first; a CannotConnectError
\* returns before anything else is touched.
apply_update(w, u) ==
    LET m == IF u.chain = NoChain
             THEN [ok |-> TRUE, changeset |-> EmptyMap, chain |-> w.chain]
             ELSE merge_chains(w.chain, u.chain)
    IN  IF ~m.ok THEN [ok |-> FALSE, wallet |-> w]
        ELSE LET w1 == [w EXCEPT !.chain = m.chain]
                 r2 == reveal_to_target_multi(w1, u.last_active_indices)
                 r3 == GraphAndIndexUpdate(r2.wallet, u.tx_update)
                 changeset == Merge(Merge([EmptyChangeSet EXCEPT
                                              !.local_chain = m.changeset],
                                          r2.changeset), r3.changeset)
             IN  [ok |-> TRUE, wallet |-> stage(r3.wallet, changeset)]

\* IndexedTxGraph::batch_insert_relevant_unconfirmed through
\* Wallet::apply_unconfirmed_txs: all transactions are indexed first, the
\* relevant ones are inserted with their seen-at time.  seen maps txid -> time.
apply_unconfirmed_txs(w, seen) ==
    LET descs == w.keyring.descriptors
        lr2 == IndexTxs(descs, w.last_revealed, DOMAIN seen)
        all == [w.graph EXCEPT !.txs = @ \cup DOMAIN seen]
        rel == {t \in DOMAIN seen : is_tx_relevant(descs, lr2, all, t)}
        g2 == GraphApplyUpdate(w.graph,
                [EmptyTxUpdate EXCEPT !.txs = rel, !.seen_ats = Restrict(seen, rel)])
    IN  stage([w EXCEPT !.graph = g2, !.last_revealed = lr2,
                        !.used = @ \cup ScriptsWithOutputs(descs, lr2, g2)],
              [EmptyChangeSet EXCEPT !.tx_graph = GraphDiff(w.graph, g2),
                                     !.indexer = MapDiff(w.last_revealed, lr2)])

\* A variant of apply_evicted_txs that does not filter the evictions by
\* membership in the canonical set.
apply_evicted_txs_unfiltered(w, evicted) ==
    LET keep == {t \in DOMAIN evicted :
                    /\ t \in w.graph.txs
                    /\ is_tx_relevant(w.keyring.descriptors, w.last_revealed,
                                      w.graph, t)}
        g2 == GraphApplyUpdate(w.graph,
                [EmptyTxUpdate EXCEPT !.evicted_ats = Restrict(evicted, keep)])
    IN  stage([w EXCEPT !.graph = g2], GraphChangeSet(GraphDiff(w.graph, g2)))

\* Wallet::apply_evicted_txs: the evictions are filtered by membership in
\* the canonical set; batch_insert_relevant_evicted_at then records the
\* eviction time of the relevant transactions of the graph.
apply_evicted_txs(w, evicted) ==
    LET canon_txids == DOMAIN list_canonical_txs(w.graph, w.chain)
        keep == {t \in (DOMAIN evicted) \cap canon_txids :
                    /\ t \in w.graph.txs
                    /\ is_tx_relevant(w.keyring.descriptors, w.last_revealed,
                                      w.graph, t)}
        g2 == GraphApplyUpdate(w.graph,
                [EmptyTxUpdate EXCEPT !.evicted_ats = Restrict(evicted, keep)])
    IN  stage([w EXCEPT !.graph = g2], GraphChangeSet(GraphDiff(w.graph, g2)))

\* LocalChain::apply_header_connected_to: the update holds connected_to, the
\* previous block and the block itself.  A block is [hash, prev_hash, txs].
HeaderUpdate(block, height, connected_to) ==
    [h \in Heights |->
        IF h = height THEN block.hash
        ELSE IF h = height - 1 THEN block.prev_hash
        ELSE IF h = connected_to[1] THEN connected_to[2]
        ELSE NoneVal]

InconsistentBlocks(block, height, connected_to) ==
    \/ connected_to[1] > height
    \/ connected_to[1] = height /\ connected_to[2] # block.hash
    \/ connected_to[1] = height - 1 /\ connected_to[2] # block.prev_hash

\* IndexedTxGraph::apply_block_relevant: transactions are indexed in block
\* order (a parent before its child); the relevant ones are inserted with an
\* anchor in the block.
apply_block_relevant(w, block, height) ==
    LET descs == w.keyring.descriptors
        lr2 == IndexTxs(descs, w.last_revealed, block.txs)
        upto(t) == [w.graph EXCEPT
                      !.txs = @ \cup {x \in block.txs : TxRank(x) <= TxRank(t)}]
        rel == {t \in block.txs : is_tx_relevant(descs, lr2, upto(t), t)}
        g2 == GraphApplyUpdate(w.graph,
                [EmptyTxUpdate EXCEPT
                    !.txs = rel,
                    !.anchors = {<< <<height, block.hash>>, t >> : t \in rel}])
    IN  [wallet |-> [w EXCEPT !.graph = g2, !.last_revealed = lr2,
                              !.used = @ \cup ScriptsWithOutputs(descs, lr2, g2)],
         changeset |-> [EmptyChangeSet EXCEPT
                          !.tx_graph = GraphDiff(w.graph, g2),
                          !.indexer = MapDiff(w.last_revealed, lr2)]]

\* A variant of apply_block_connected_to that inserts the transactions of the
\* block before it connects the header.
apply_block_connected_to_graph_first(w, block, height, connected_to) ==
    LET r == apply_block_relevant(w, block, height)
        w2 == stage(r.wallet, r.changeset)
    IN  IF InconsistentBlocks(block, height, connected_to)
        THEN [ok |-> FALSE, err |-> "InconsistentBlocks", wallet |-> w2]
        ELSE LET m == merge_chains(w.chain, HeaderUpdate(block, height, connected_to))
             IN  IF ~m.ok THEN [ok |-> FALSE, err |-> "CannotConnect", wallet |-> w2]
                 ELSE [ok |-> TRUE, err |-> "None",
                       wallet |-> stage([w2 EXCEPT !.chain = m.chain],
                                        [EmptyChangeSet EXCEPT
                                            !.local_chain = m.changeset])]

apply_block_connected_to(w, block, height, connected_to) ==
    IF InconsistentBlocks(block, height, connected_to)
    THEN [ok |-> FALSE, err |-> "InconsistentBlocks", wallet |-> w]
    ELSE LET m == merge_chains(w.chain, HeaderUpdate(block, height, connected_to))
         IN  IF ~m.ok THEN [ok |-> FALSE, err |-> "CannotConnect", wallet |-> w]
             ELSE LET r == apply_block_relevant([w EXCEPT !.chain = m.chain],
                                                block, height)
                  IN  [ok |-> TRUE, err |-> "None",
                       wallet |-> stage(r.wallet,
                                    Merge([EmptyChangeSet EXCEPT
                                              !.local_chain = m.changeset],
                                          r.changeset))]

\* Wallet::apply_block: connected_to is the previous block of the header.
apply_block(w, block, height) ==
    apply_block_connected_to(w, block, height,
        IF height >= 1 THEN <<height - 1, block.prev_hash>>
        ELSE <<height, block.hash>>)

\* Wallet::take_staged (Merge::take).
take_staged(w) ==
    IF is_empty(w.stage)
    THEN [some |-> FALSE, changeset |-> EmptyChangeSet, wallet |-> w]
    ELSE [some |-> TRUE, changeset |-> w.stage,
          wallet |-> [w EXCEPT !.stage = EmptyChangeSet]]

(***************************************************************************)
(* Queries and the event diff.                                             *)
(***************************************************************************)
\* Wallet::transactions: canonical and relevant, txid -> chain position.
transactions(w) ==
    LET canon == list_canonical_txs(w.graph, w.chain)
    IN  Restrict(canon, {t \in DOMAIN canon :
            is_tx_relevant(w.keyring.descriptors, w.last_revealed, w.graph, t)})

\* TxOut::value, in units chosen so that a sum identifies the outputs in it.
Value(op) ==
    CASE op = <<"T1", 0>> -> 1
      [] op = <<"T2", 0>> -> 2
      [] OTHER -> 4

RECURSIVE SumValues(_)
SumValues(S) ==
    IF S = {} THEN 0
    ELSE LET op == CHOOSE x \in S : TRUE
         IN  Value(op) + SumValues(S \ {op})

\* Wallet::list_unspent: TxGraph::filter_chain_unspents over the outpoints
\* of the index.  An outpoint is listed when its transaction is canonical
\* and no canonical transaction spends it; it carries the chain position of
\* its transaction.
list_unspent(w) ==
    LET canon == list_canonical_txs(w.graph, w.chain)
        owned == OwnedOutPoints(w.keyring.descriptors, w.last_revealed, w.graph)
        unspent == {op \in owned :
                       /\ op[1] \in DOMAIN canon
                       /\ ~\E t \in DOMAIN canon : op \in SpentBy(t)}
    IN  [op \in unspent |-> canon[op[1]]]

\* A variant of balance that leaves out the unconfirmed outputs.
balance_confirmed_only(w) ==
    LET utxos == list_unspent(w)
        tip == TipHeight(w.chain)
    IN  [confirmed |-> SumValues({op \in DOMAIN utxos :
                           /\ utxos[op].kind = "Confirmed"
                           /\ utxos[op].anchor[1] <= tip}),
         immature |-> 0,
         trusted_pending |-> 0,
         untrusted_pending |-> 0]

\* Wallet::balance: TxGraph::balance over the same unspent outputs with a
\* trust predicate that is always false.  A confirmed output counts as
\* confirmed when is_confirmed_and_spendable holds at the tip (mature and
\* confirmed at or below the tip) and as immature when it is not mature; no
\* transaction of the universe is a coinbase, so every output is mature.
\* An unconfirmed output counts as untrusted pending.
balance(w) ==
    LET utxos == list_unspent(w)
        tip == TipHeight(w.chain)
    IN  [confirmed |-> SumValues({op \in DOMAIN utxos :
                           /\ utxos[op].kind = "Confirmed"
                           /\ utxos[op].anchor[1] <= tip}),
         immature |-> 0,
         trusted_pending |-> 0,
         untrusted_pending |-> SumValues({op \in DOMAIN utxos :
                                   utxos[op].kind = "Unconfirmed"})]

\* Balance::total.
total(b) == b.confirmed + b.immature + b.trusted_pending + b.untrusted_pending

\* A set of txids as a sequence in BTreeMap (ascending txid) order.
RECURSIVE TxidSeq(_)
TxidSeq(S) ==
    IF S = {} THEN <<>>
    ELSE LET m == CHOOSE t \in S : \A x \in S : TxRank(t) <= TxRank(x)
         IN  <<m>> \o TxidSeq(S \ {m})

Event(type, txid, block_time, old_block_time, conflicts) ==
    [type |-> type, txid |-> txid, block_time |-> block_time,
     old_block_time |-> old_block_time, conflicts |-> conflicts]

\* The direct conflicts of t as (input index, conflicting txid) pairs.
ConflictPairs(g, t) ==
    {<<p[1] - 1, p[2]>> :
        p \in {q \in (DOMAIN TxInput(t)) \X (g.txs \ {t}) :
                  TxInput(t)[q[1]] \in SpentBy(q[2])}}

\* A variant of StatusEvent that forgets the old anchor of a transaction
\* that went from confirmed to unconfirmed.
StatusEvent_forget_anchor(txs1, txs2, t) ==
    LET pos2 == txs2[t]
    IN  IF pos2.kind = "Confirmed"
        THEN IF t \in DOMAIN txs1 /\ txs1[t].kind = "Confirmed"
             THEN IF txs1[t].anchor # pos2.anchor
                  THEN <<Event("TxConfirmed", t, pos2.anchor, txs1[t].anchor, {})>>
                  ELSE <<>>
             ELSE <<Event("TxConfirmed", t, pos2.anchor, NoBlock, {})>>
        ELSE IF t \in DOMAIN txs1 /\ txs1[t].kind = "Unconfirmed"
             THEN <<>>
             ELSE <<Event("TxUnconfirmed", t, NoBlock, NoBlock, {})>>

\* A variant of StatusEvent that reports nothing for a transaction that is
\* confirmed before and after.
StatusEvent_same_kind_silent(txs1, txs2, t) ==
    LET pos2 == txs2[t]
    IN  IF t \in DOMAIN txs1
        THEN IF txs1[t].kind = pos2.kind THEN <<>>
             ELSE IF pos2.kind = "Confirmed"
             THEN <<Event("TxConfirmed", t, pos2.anchor, NoBlock, {})>>
             ELSE <<Event("TxUnconfirmed", t, NoBlock, txs1[t].anchor, {})>>
        ELSE IF pos2.kind = "Confirmed"
             THEN <<Event("TxConfirmed", t, pos2.anchor, NoBlock, {})>>
             ELSE <<Event("TxUnconfirmed", t, NoBlock, NoBlock, {})>>

StatusEvent(txs1, txs2, t) ==
    LET pos2 == txs2[t]
    IN  IF t \in DOMAIN txs1
        THEN LET pos1 == txs1[t]
             IN  IF pos1.kind = "Unconfirmed" /\ pos2.kind = "Confirmed"
                 THEN <<Event("TxConfirmed", t, pos2.anchor, NoBlock, {})>>
                 ELSE IF pos1.kind = "Confirmed" /\ pos2.kind = "Unconfirmed"
                 THEN <<Event("TxUnconfirmed", t, NoBlock, pos1.anchor, {})>>
                 ELSE IF pos1.kind = "Confirmed" /\ pos2.kind = "Confirmed"
                         /\ pos1.anchor # pos2.anchor
                 THEN <<Event("TxConfirmed", t, pos2.anchor, pos1.anchor, {})>>
                 ELSE <<>>
        ELSE IF pos2.kind = "Confirmed"
             THEN <<Event("TxConfirmed", t, pos2.anchor, NoBlock, {})>>
             ELSE <<Event("TxUnconfirmed", t, NoBlock, NoBlock, {})>>

RemovedEvent(w, t) ==
    IF ConflictPairs(w.graph, t) # {}
    THEN <<Event("TxReplaced", t, NoBlock, NoBlock, ConflictPairs(w.graph, t))>>
    ELSE <<Event("TxDropped", t, NoBlock, NoBlock, {})>>

RECURSIVE StatusEvents(_, _, _)
StatusEvents(txs1, txs2, order) ==
    IF order = <<>> THEN <<>>
    ELSE StatusEvent(txs1, txs2, Head(order)) \o StatusEvents(txs1, txs2, Tail(order))

RECURSIVE RemovedEvents(_, _)
RemovedEvents(w, order) ==
    IF order = <<>> THEN <<>>
    ELSE RemovedEvent(w, Head(order)) \o RemovedEvents(w, Tail(order))

\* Variants of wallet_events: one that lists the transactions that are no
\* longer canonical before the status changes, one that reports every
\* transaction of the first snapshot as removed, one that compares the
\* heights of the tips only.
wallet_events_removed_first(w, chain_tip1, chain_tip2, wallet_txs1, wallet_txs2) ==
    (IF chain_tip1 # chain_tip2
     THEN <<Event("ChainTipChanged", NoneVal, chain_tip2, chain_tip1, {})>>
     ELSE <<>>)
    \o RemovedEvents(w, TxidSeq((DOMAIN wallet_txs1) \ (DOMAIN wallet_txs2)))
    \o StatusEvents(wallet_txs1, wallet_txs2, TxidSeq(DOMAIN wallet_txs2))

wallet_events_all_removed(w, chain_tip1, chain_tip2, wallet_txs1, wallet_txs2) ==
    (IF chain_tip1 # chain_tip2
     THEN <<Event("ChainTipChanged", NoneVal, chain_tip2, chain_tip1, {})>>
     ELSE <<>>)
    \o StatusEvents(wallet_txs1, wallet_txs2, TxidSeq(DOMAIN wallet_txs2))
    \o RemovedEvents(w, TxidSeq(DOMAIN wallet_txs1))

wallet_events_tip_height(w, chain_tip1, chain_tip2, wallet_txs1, wallet_txs2) ==
    (IF chain_tip1[1] # chain_tip2[1]
     THEN <<Event("ChainTipChanged", NoneVal, chain_tip2, chain_tip1, {})>>
     ELSE <<>>)
    \o StatusEvents(wallet_txs1, wallet_txs2, TxidSeq(DOMAIN wallet_txs2))
    \o RemovedEvents(w, TxidSeq((DOMAIN wallet_txs1) \ (DOMAIN wallet_txs2)))

\* wallet_events: the tip change (new tip in block_time, old tip in
\* old_block_time), then status changes in txid order, then the transactions
\* that are no longer canonical.
wallet_events(w, chain_tip1, chain_tip2, wallet_txs1, wallet_txs2) ==
    (IF chain_tip1 # chain_tip2
     THEN <<Event("ChainTipChanged", NoneVal, chain_tip2, chain_tip1, {})>>
     ELSE <<>>)
    \o StatusEvents(wallet_txs1, wallet_txs2, TxidSeq(DOMAIN wallet_txs2))
    \o RemovedEvents(w, TxidSeq((DOMAIN wallet_txs1) \ (DOMAIN wallet_txs2)))

\* Wallet::apply_update_events.
apply_update_events(w, u) ==
    The({IF ~r.ok THEN [ok |-> FALSE, wallet |-> w, events |-> <<>>]
         ELSE [ok |-> TRUE, wallet |-> r.wallet,
               events |-> The({wallet_events(r.wallet, Tip(w.chain),
                                             Tip(r.wallet.chain), txs1, txs2) :
                                 txs1 \in {transactions(w)},
                                 txs2 \in {transactions(r.wallet)}})] :
         r \in {apply_update(w, u)}})

(***************************************************************************)
(* PersistedWallet and the persister.  The persister's store is the        *)
(* aggregate of the changesets written to it.  An outcome is what the      *)
(* persister does with one write: the error it returns (NoneVal for        *)
(* success) and whether the data reached the store.  A failed write may or *)
(* may not have reached the store.                                         *)
(***************************************************************************)
PersistOutcomes ==
    {[error |-> NoneVal, written |-> TRUE],
     [error |-> "E1", written |-> FALSE],
     [error |-> "E2", written |-> TRUE]}

\* A variant of persist that takes the stage before it writes, so that a
\* failed write loses the staged changes.
persist_take_first(w, store, outcome) ==
    IF is_empty(w.stage)
    THEN [ok |-> TRUE, persisted |-> FALSE, error |-> NoneVal,
          wallet |-> w, store |-> store]
    ELSE [ok |-> outcome.error = NoneVal, persisted |-> outcome.error = NoneVal,
          error |-> outcome.error,
          wallet |-> take_staged(w).wallet,
          store |-> IF outcome.written THEN Merge(store, w.stage) ELSE store]

\* A variant of persist that never takes the stage.
persist_keep_stage(w, store, outcome) ==
    IF is_empty(w.stage)
    THEN [ok |-> TRUE, persisted |-> FALSE, error |-> NoneVal,
          wallet |-> w, store |-> store]
    ELSE [ok |-> outcome.error = NoneVal, persisted |-> outcome.error = NoneVal,
          error |-> outcome.error,
          wallet |-> w,
          store |-> IF outcome.written THEN Merge(store, w.stage) ELSE store]

\* PersistedWallet::persist.  The result is Ok(persisted) or Err(error).
persist(w, store, outcome) ==
    IF is_empty(w.stage)
    THEN [ok |-> TRUE, persisted |-> FALSE, error |-> NoneVal,
          wallet |-> w, store |-> store]
    ELSE IF outcome.error = NoneVal
    THEN [ok |-> TRUE, persisted |-> TRUE, error |-> NoneVal,
          wallet |-> take_staged(w).wallet, store |-> Merge(store, w.stage)]
    ELSE [ok |-> FALSE, persisted |-> FALSE, error |-> outcome.error,
          wallet |-> w,
          store |-> IF outcome.written THEN Merge(store, w.stage) ELSE store]

\* A variant of create that does not look at what the persister holds.
create_over_existing(store, keyring, outcome) ==
    LET w == create_with_params(keyring)
    IN  IF outcome.error = NoneVal
        THEN [ok |-> TRUE, err |-> NoneVal, some |-> TRUE,
              wallet |-> take_staged(w).wallet, store |-> Merge(store, w.stage)]
        ELSE [ok |-> FALSE, err |-> outcome.error, some |-> FALSE, wallet |-> w,
              store |-> IF outcome.written THEN Merge(store, w.stage) ELSE store]

\* PersistedWallet::create: fails with DataAlreadyExists when the persister
\* holds a non-empty changeset; otherwise the stage of the fresh wallet is
\* taken and written, and a failed write returns the error and no wallet.
create(store, keyring, outcome) ==
    IF ~is_empty(store)
    THEN [ok |-> FALSE, err |-> "DataAlreadyExists", some |-> FALSE,
          wallet |-> create_with_params(keyring), store |-> store]
    ELSE LET w == create_with_params(keyring)
         IN  IF outcome.error = NoneVal
             THEN [ok |-> TRUE, err |-> NoneVal, some |-> TRUE,
                   wallet |-> take_staged(w).wallet, store |-> Merge(store, w.stage)]
             ELSE [ok |-> FALSE, err |-> outcome.error, some |-> FALSE, wallet |-> w,
                   store |-> IF outcome.written THEN Merge(store, w.stage) ELSE store]

\* PersistedWallet::load: the wallet of the store's aggregate.
load(store) == load_with_params(store)

(***************************************************************************)
(* The SQLite persister.  db holds the tables the changesets of this       *)
(* repository are written to: the network row, the descriptor rows keyed   *)
(* by keychain (descriptor UNIQUE, is_default flag) and the locked         *)
(* outpoint rows.  The tables of the local chain, tx graph and indexer     *)
(* changesets belong to bdk_chain and are not part of db.                  *)
(***************************************************************************)
EmptyDb == [network |-> NoneVal, descriptors |-> EmptyMap, locks |-> {}]

\* INSERT OR IGNORE INTO bdk_descriptor: the row is dropped when the
\* keychain (PRIMARY KEY) or the descriptor (UNIQUE) is already there.
InsertDescriptorRow(rows, k, d) ==
    IF k \in DOMAIN rows \/ \E x \in DOMAIN rows : rows[x].descriptor = d
    THEN rows
    ELSE Extend(rows, [x \in {k} |-> [descriptor |-> d, is_default |-> FALSE]])

RECURSIVE InsertDescriptorRows(_, _, _)
InsertDescriptorRows(rows, descs, order) ==
    IF order = <<>> THEN rows
    ELSE InsertDescriptorRows(InsertDescriptorRow(rows, Head(order), descs[Head(order)]),
                              descs, Tail(order))

\* A variant of the keyring's persist_to_sqlite that replaces the network row.
KeyRingPersistToSqlite_replace_network(db, cs) ==
    LET rows == InsertDescriptorRows(db.descriptors, cs.descriptors,
                                     KeychainSeq(DOMAIN cs.descriptors))
    IN  [db EXCEPT
           !.network = IF cs.network # NoneVal THEN cs.network ELSE @,
           !.descriptors =
              IF cs.default_keychain = NoneVal THEN rows
              ELSE [k \in DOMAIN rows |->
                      [rows[k] EXCEPT !.is_default = (k = cs.default_keychain)]]]

\* keyring::ChangeSet::persist_to_sqlite: INSERT OR IGNORE the network and
\* the descriptors; with a default keychain, clear the old default and flag
\* the row of that keychain.
KeyRingPersistToSqlite(db, cs) ==
    LET rows == InsertDescriptorRows(db.descriptors, cs.descriptors,
                                     KeychainSeq(DOMAIN cs.descriptors))
    IN  [db EXCEPT
           !.network = IF cs.network # NoneVal /\ @ = NoneVal THEN cs.network ELSE @,
           !.descriptors =
              IF cs.default_keychain = NoneVal THEN rows
              ELSE [k \in DOMAIN rows |->
                      [rows[k] EXCEPT !.is_default = (k = cs.default_keychain)]]]

\* keyring::ChangeSet::from_sqlite.
KeyRingFromSqlite(db) ==
    LET defaults == {k \in DOMAIN db.descriptors : db.descriptors[k].is_default}
    IN  [network |-> db.network,
         descriptors |-> [k \in DOMAIN db.descriptors |-> db.descriptors[k].descriptor],
         default_keychain |-> IF defaults = {} THEN NoneVal
                              ELSE CHOOSE k \in defaults : TRUE]

\* A variant of the locked outpoint write in which a lock toggles the row.
LockedPersistToSqlite_toggle(db, outpoints) ==
    [db EXCEPT !.locks =
        (@ \ DOMAIN outpoints)
        \cup {op \in DOMAIN outpoints : outpoints[op] /\ op \notin db.locks}]

\* A variant of the locked outpoint write that never deletes a row.
LockedPersistToSqlite_keep_rows(db, outpoints) ==
    [db EXCEPT !.locks = @ \cup {op \in DOMAIN outpoints : outpoints[op]}]

\* The locked outpoint part of persist_to_sqlite: INSERT OR IGNORE the
\* locked outpoints, DELETE the unlocked ones.
LockedPersistToSqlite(db, outpoints) ==
    [db EXCEPT !.locks = (@ \cup {op \in DOMAIN outpoints : outpoints[op]})
                            \ {op \in DOMAIN outpoints : ~outpoints[op]}]

\* The locked outpoint part of from_sqlite: every row is a locked outpoint.
LockedFromSqlite(db) == [op \in db.locks |-> TRUE]

\* ChangeSet<K>::persist_to_sqlite and from_sqlite, the keyring and locked
\* outpoint parts.
persist_to_sqlite(db, cs) ==
    LockedPersistToSqlite(KeyRingPersistToSqlite(db, cs.keyring),
                          cs.locked_outpoints)

from_sqlite(db) ==
    [EmptyChangeSet EXCEPT !.keyring = KeyRingFromSqlite(db),
                           !.locked_outpoints = LockedFromSqlite(db)]

(***************************************************************************)
(* Inputs of the operations.                                               *)
(***************************************************************************)
KeyRings ==
    {[network |-> "Regtest", descriptors |-> [k \in Keychains |->
                                IF k = "k1" THEN "d1" ELSE "d2"]]}

\* Chain updates: checkpoints from genesis up, or a single block that
\* does not name the block it connects to.
ChainUpdates ==
    {c \in [Heights -> Hashes \cup {GenesisHash, NoneVal}] :
        /\ \A h \in Heights \ {0} : c[h] # GenesisHash
        /\ \/ c[0] = GenesisHash
           \/ c[0] = NoneVal /\ Cardinality(ChainHeights(c)) = 1
           \/ c[0] \in Hashes /\ Cardinality(ChainHeights(c)) = 1}

NoUpdate ==
    [last_active_indices |-> EmptyMap, tx_update |-> EmptyTxUpdate, chain |-> NoChain]

\* Single-transaction updates: the tx alone, seen in the mempool, anchored
\* in a block, or evicted from the mempool.
TxUpdatesOf(t) ==
    {[EmptyTxUpdate EXCEPT !.txs = {t}]}
    \cup {[EmptyTxUpdate EXCEPT !.txs = {t}, !.seen_ats = [x \in {t} |-> n]] :
            n \in Times}
    \cup {[EmptyTxUpdate EXCEPT !.txs = {t}, !.anchors = {<<b, t>>}] :
            b \in BlockIds}
    \cup {[EmptyTxUpdate EXCEPT !.evicted_ats = [x \in {t} |-> n]] : n \in Times}

\* Updates of the staging specification: chain only, one transaction only,
\* indices only, and updates that carry all three parts.
Updates ==
    {[NoUpdate EXCEPT !.chain = c] : c \in ChainUpdates}
    \cup {[NoUpdate EXCEPT !.tx_update = tu] : tu \in TxUpdatesOf("T1")}
    \cup {[NoUpdate EXCEPT !.last_active_indices = [x \in {k} |-> i]] :
            k \in Keychains, i \in Indices}
    \cup {[last_active_indices |-> [x \in {"k1"} |-> MaxIndex],
           tx_update |-> [EmptyTxUpdate EXCEPT
                            !.txs = {"T2"}, !.seen_ats = [x \in {"T2"} |-> MaxTime]],
           chain |-> c] : c \in ChainUpdates}

\* Updates of the event specification.
EventUpdates ==
    {[NoUpdate EXCEPT !.chain = c] : c \in {x \in ChainUpdates : x[0] = GenesisHash}}
    \cup {[NoUpdate EXCEPT !.tx_update = tu] :
            tu \in UNION {TxUpdatesOf(t) : t \in Txids \ {"T4"}}}
    \cup {[NoUpdate EXCEPT !.tx_update =
             [EmptyTxUpdate EXCEPT !.txs = {"T4"},
                                   !.seen_ats = [x \in {"T4"} |-> MaxTime]]]}

\* Blocks with their height: the block at height 1 builds on genesis.
Blocks ==
    {[hash |-> h, prev_hash |-> p, txs |-> ts] :
        h \in Hashes, p \in Hashes \cup {GenesisHash},
        ts \in {{"T1"}, {"T1", "T3"}}}

BlocksAt ==
    {bh \in Blocks \X (Heights \ {0}) :
        bh[1].prev_hash = GenesisHash <=> bh[2] = 1}

SeenInputs ==
    {[x \in {t} |-> MaxTime] : t \in {"T1", "T2", "T3"}}
    \cup {[x \in {"T1", "T3"} |-> n] : n \in {MaxTime - 1}}

EvictedInputs == {[x \in {t} |-> n] : t \in {"T1", "T2"}, n \in Times}

LockableOutPoints == {<<"T1", 0>>, FundingOutPoint}

\* Changesets handed to the SQLite persister: keyring changes (a keychain
\* or a descriptor may be bound twice), lock and unlock entries, and both.
SqlKeyRingChangeSets ==
    {[network |-> n, descriptors |-> d, default_keychain |-> k] :
        n \in {NoneVal, "Regtest"},
        d \in {EmptyMap,
               [x \in {"k1"} |-> "d1"], [x \in {"k1"} |-> "d2"],
               [x \in {"k2"} |-> "d1"], [x \in Keychains |-> "d1"],
               [x \in Keychains |-> IF x = "k1" THEN "d1" ELSE "d2"]},
        k \in {NoneVal} \cup Keychains}
    \cup {[EmptyKeyRingChangeSet EXCEPT !.network = "Bitcoin"]}

SqlLockChangeSets ==
    UNION {[S -> BOOLEAN] : S \in SUBSET LockableOutPoints}

SqlChangeSets ==
    {[EmptyChangeSet EXCEPT !.keyring = k] : k \in SqlKeyRingChangeSets}
    \cup {[EmptyChangeSet EXCEPT !.locked_outpoints = l] : l \in SqlLockChangeSets}
    \cup {[EmptyChangeSet EXCEPT
             !.keyring = [network |-> "Regtest",
                          descriptors |-> [x \in {"k1"} |-> "d1"],
                          default_keychain |-> "k1"],
             !.locked_outpoints = [x \in {FundingOutPoint} |-> b]] : b \in BOOLEAN}

(***************************************************************************)
(* The state machine.  wallet is the in-memory Wallet, persisted the       *)
(* persister's store, last the last call (its name, argument, whether it   *)
(* returned Ok, and what it returned), ops the number of calls made, db the *)
(* tables of a SQLite persister that is written to directly.               *)
(***************************************************************************)
VARIABLES wallet, persisted, db, ring, last, ops

vars == <<wallet, persisted, db, ring, last, ops>>

Call(op, arg, ok, ret) == [op |-> op, arg |-> arg, ok |-> ok, ret |-> ret]

\* Wallet::create_with_params, or PersistedWallet::create on an empty store
\* (the initial changeset is taken from the stage and persisted).
Init ==
    /\ \E kr \in KeyRings, persistedCreate \in BOOLEAN :
        LET w == create_with_params(kr)
        IN  IF persistedCreate
            THEN /\ wallet = take_staged(w).wallet
                 /\ persisted = take_staged(w).changeset
            ELSE /\ wallet = w
                 /\ persisted = EmptyChangeSet
    /\ db = EmptyDb
    /\ ring = NoRing
    /\ last = Call("create", NoneVal, TRUE, <<>>)
    /\ ops = 0

Step(op, arg, ok, w) ==
    /\ ops < MaxOps
    /\ ops' = ops + 1
    /\ wallet' = w
    /\ last' = Call(op, arg, ok, <<>>)
    /\ UNCHANGED <<persisted, db, ring>>

RevealNextAddress ==
    \E k \in Keychains :
        /\ LastRevealed(wallet.last_revealed, wallet.keyring.descriptors[k]) < MaxIndex
        /\ ops < MaxOps
        /\ ops' = ops + 1
        /\ wallet' = reveal_next_address(wallet, k)
        /\ last' = Call("reveal_next_address", k, TRUE, reveal_next_index(wallet, k))
        /\ UNCHANGED <<persisted, db, ring>>

NextUnusedAddress ==
    \E k \in Keychains :
        /\ \/ UnusedRevealed(wallet, k) # {}
           \/ LastRevealed(wallet.last_revealed, wallet.keyring.descriptors[k]) < MaxIndex
        /\ ops < MaxOps
        /\ ops' = ops + 1
        /\ wallet' = next_unused_address(wallet, k)
        /\ last' = Call("next_unused_address", k, TRUE, next_unused_index(wallet, k))
        /\ UNCHANGED <<persisted, db, ring>>

MarkUsed ==
    \E k \in Keychains, i \in Indices :
        Step("mark_used", <<k, i>>, mark_used(wallet, k, i) # wallet,
             mark_used(wallet, k, i))

UnmarkUsed ==
    \E k \in Keychains, i \in Indices :
        Step("unmark_used", <<k, i>>, unmark_used(wallet, k, i) # wallet,
             unmark_used(wallet, k, i))

CancelTx ==
    \E t \in Txids : Step("cancel_tx", t, TRUE, cancel_tx(wallet, t))

LockOutpoint ==
    \E op \in LockableOutPoints :
        Step("lock_outpoint", op, TRUE, lock_outpoint(wallet, op))

UnlockOutpoint ==
    \E op \in LockableOutPoints :
        Step("unlock_outpoint", op, TRUE, unlock_outpoint(wallet, op))

InsertTxout ==
    Step("insert_txout", FundingOutPoint, TRUE, insert_txout(wallet, FundingOutPoint))

ApplyUpdate ==
    /\ ops < MaxOps
    /\ \E u \in Updates :
          \E r \in {apply_update(wallet, u)} :
              Step("apply_update", u, r.ok, r.wallet)

ApplyBlock ==
    /\ ops < MaxOps
    /\ \E bh \in BlocksAt :
          \E r \in {apply_block(wallet, bh[1], bh[2])} :
              Step("apply_block", bh, r.ok, r.wallet)

ApplyUnconfirmedTxs ==
    \E seen \in SeenInputs :
        Step("apply_unconfirmed_txs", seen, TRUE, apply_unconfirmed_txs(wallet, seen))

ApplyEvictedTxs ==
    \E ev \in EvictedInputs :
        Step("apply_evicted_txs", ev, TRUE, apply_evicted_txs(wallet, ev))

PersistCall(outcome) ==
    LET r == persist(wallet, persisted, outcome)
    IN  /\ wallet' = r.wallet
        /\ persisted' = r.store
        /\ last' = Call("persist",
                        [outcome |-> outcome,
                         retry |-> last.op = "persist" /\ ~last.ok],
                        r.ok,
                        [persisted |-> r.persisted, error |-> r.error])
        /\ UNCHANGED <<db, ring>>

Persist ==
    \E outcome \in PersistOutcomes :
        /\ ops < MaxOps
        /\ ops' = ops + 1
        /\ PersistCall(outcome)

\* PersistedWallet::load after a restart: what was not persisted is lost.
Load ==
    /\ ops < MaxOps
    /\ load(persisted).ok
    /\ ops' = ops + 1
    /\ wallet' = load(persisted).wallet
    /\ last' = Call("load", NoneVal, TRUE, <<>>)
    /\ UNCHANGED <<persisted, db, ring>>

ApplyUpdateEvents ==
    /\ ops < MaxOps
    /\ \E u \in EventUpdates :
          \E r \in {apply_update_events(wallet, u)} :
              /\ ops' = ops + 1
              /\ wallet' = r.wallet
              /\ last' = Call("apply_update_events", u, r.ok, r.events)
              /\ UNCHANGED <<persisted, db, ring>>

Next ==
    \/ RevealNextAddress
    \/ NextUnusedAddress
    \/ LockOutpoint
    \/ UnlockOutpoint
    \/ InsertTxout
    \/ ApplyUpdate
    \/ ApplyBlock
    \/ ApplyUnconfirmedTxs
    \/ ApplyEvictedTxs
    \/ Persist
    \/ Load

Spec == Init /\ [][Next]_vars

\* The event specification: the operations that change the canonical set.
NextEvents ==
    \/ ApplyUpdateEvents
    \/ ApplyBlock
    \/ ApplyUnconfirmedTxs
    \/ ApplyEvictedTxs

SpecEvents == Init /\ [][NextEvents]_vars

\* The three ways in which a seen-at and an evicted-at time of one
\* transaction reach the wallet: one apply_update that carries both,
\* apply_unconfirmed_txs followed by apply_evicted_txs, and the two calls in
\* the other order.  "seen_only" is apply_unconfirmed_txs alone.
SeenEvictedPaths == {"update", "seen_first", "evicted_first", "seen_only"}

seen_and_evicted(w, t, s, e, path) ==
    LET seen == [x \in {t} |-> s]
        evicted == [x \in {t} |-> e]
    IN  CASE path = "update" ->
               apply_update(w, [NoUpdate EXCEPT !.tx_update =
                   [EmptyTxUpdate EXCEPT !.txs = {t}, !.seen_ats = seen,
                                         !.evicted_ats = evicted]]).wallet
          [] path = "seen_first" ->
               apply_evicted_txs(apply_unconfirmed_txs(w, seen), evicted)
          [] path = "evicted_first" ->
               apply_unconfirmed_txs(apply_evicted_txs(w, evicted), seen)
          [] OTHER -> apply_unconfirmed_txs(w, seen)

\* The canonical status of a transaction: the kind of its chain position in
\* list_canonical_txs, or "None" when it is not canonical.
CanonicalStatus(w, t) ==
    LET canon == list_canonical_txs(w.graph, w.chain)
    IN  IF t \in DOMAIN canon THEN canon[t].kind ELSE "None"

\* The order specification: besides blocks, unconfirmed transactions and
\* evictions applied on their own, a seen-at and an evicted-at time of one transaction are
\* applied along one of the paths; the call is recorded with the status of
\* the transaction before it, whether the index finds the transaction
\* relevant, and the status each path ends with.
SeenAndEvicted ==
    /\ ops < MaxOps
    /\ \E t \in Txids, s \in Times, e \in Times,
          path \in SeenEvictedPaths \ {"seen_only"} :
          \E ret \in {[p \in SeenEvictedPaths |->
                         CanonicalStatus(seen_and_evicted(wallet, t, s, e, p), t)]} :
              /\ ops' = ops + 1
              /\ wallet' = seen_and_evicted(wallet, t, s, e, path)
              /\ last' = Call("seen_and_evicted",
                              [txid |-> t, seen_at |-> s, evicted_at |-> e,
                               path |-> path,
                               was |-> CanonicalStatus(wallet, t),
                               relevant |->
                                  is_tx_relevant(wallet.keyring.descriptors,
                                      wallet.last_revealed,
                                      [wallet.graph EXCEPT !.txs = @ \cup {t}], t)],
                              TRUE, ret)
              /\ UNCHANGED <<persisted, db, ring>>

NextOrder ==
    \/ SeenAndEvicted
    \/ ApplyBlock
    \/ ApplyUnconfirmedTxs
    \/ ApplyEvictedTxs

SpecOrder == Init /\ [][NextOrder]_vars

\* The SQLite specification: changesets are persisted to a freshly
\* initialized database; persisted is the merge of what was handed over and
\* last.ret what initialize() reads back.
InitPersist ==
    /\ \E kr \in KeyRings : wallet = create_with_params(kr)
    /\ persisted = EmptyChangeSet
    /\ db = EmptyDb
    /\ ring = NoRing
    /\ last = Call("init_sqlite_tables", NoneVal, TRUE, from_sqlite(EmptyDb))
    /\ ops = 0

SqlitePersist ==
    \E cs \in SqlChangeSets :
        /\ ops < MaxOps
        /\ ops' = ops + 1
        /\ db' = persist_to_sqlite(db, cs)
        /\ persisted' = Merge(persisted, cs)
        /\ last' = Call("persist_to_sqlite",
                        [changeset |-> cs, before |-> from_sqlite(db)],
                        TRUE, from_sqlite(db'))
        /\ UNCHANGED <<wallet, ring>>

NextPersist == SqlitePersist

SpecPersist == InitPersist /\ [][NextPersist]_vars

\* The KeyRing specification: a ring is constructed with new or
\* new_with_descriptors and then offered descriptors with add_descriptor;
\* a failed construction leaves no ring.
InitKeyRing ==
    /\ wallet = create_with_params(The(KeyRings))
    /\ persisted = EmptyChangeSet
    /\ db = EmptyDb
    /\ ring = NoRing
    /\ last = Call("none", NoneVal, TRUE, NoneVal)
    /\ ops = 0

KeyRingNew ==
    /\ ops < MaxOps
    /\ ring = NoRing
    /\ \E network \in Networks, keychain \in RingKeychains, input \in DescriptorInputs :
          \E r \in {KeyRing_new(network, keychain, input)} :
              /\ ops' = ops + 1
              /\ ring' = r.keyring
              /\ last' = Call("new", [keychain |-> keychain, input |-> input], r.ok, r.err)
              /\ UNCHANGED <<wallet, persisted, db>>

KeyRingNewWithDescriptors ==
    /\ ops < MaxOps
    /\ ring = NoRing
    /\ \E network \in Networks :
       \E descriptors \in UNION {[S -> DescriptorInputs] : S \in SUBSET RingKeychains} :
          \E r \in {new_with_descriptors(network, descriptors)} :
              /\ ops' = ops + 1
              /\ ring' = r.keyring
              /\ last' = Call("new_with_descriptors", descriptors, r.ok, r.err)
              /\ UNCHANGED <<wallet, persisted, db>>

KeyRingAddDescriptor ==
    /\ ops < MaxOps
    /\ ring # NoRing
    /\ \E keychain \in RingKeychains, input \in DescriptorInputs :
          \E r \in {add_descriptor(ring, keychain, input)} :
              /\ ops' = ops + 1
              /\ ring' = r.keyring
              /\ last' = Call("add_descriptor", [keychain |-> keychain, input |-> input],
                              r.ok, r.err)
              /\ UNCHANGED <<wallet, persisted, db>>

NextKeyRing ==
    \/ KeyRingNew
    \/ KeyRingNewWithDescriptors
    \/ KeyRingAddDescriptor

SpecKeyRing == InitKeyRing /\ [][NextKeyRing]_vars

\* The KeyRing of src/wallet/src/keyring/mod.rs carries a default keychain.
\* Its constructor and add_descriptor do not return errors: an input that
\* does not parse, or a multipath descriptor, makes the call panic, which is
\* modelled as a call that fails and changes nothing.
NoDefaultRing == [network |-> NoneVal, descriptors |-> EmptyMap, default_keychain |-> NoneVal]

\* KeyRing::new: the descriptor given becomes the sole and default keychain.
DefaultKeyRing_new(network, keychain, input) ==
    LET descriptor == into_wallet_descriptor(input)
    IN  IF descriptor = "multipath"
        THEN [ok |-> FALSE, keyring |-> NoDefaultRing]
        ELSE [ok |-> TRUE,
              keyring |-> [network |-> network,
                           descriptors |-> [k \in {keychain} |-> descriptor],
                           default_keychain |-> keychain]]

\* A variant of add_descriptor that makes every added keychain the default.
add_descriptor_always_default(keyring, keychain, input, default) ==
    LET descriptor == into_wallet_descriptor(input)
    IN  IF descriptor = "multipath"
        THEN [ok |-> FALSE, keyring |-> keyring]
        ELSE [ok |-> TRUE,
              keyring |-> [keyring EXCEPT
                  !.default_keychain = keychain,
                  !.descriptors = Extend(@, [k \in {keychain} |-> descriptor])]]

\* KeyRing::add_descriptor(keychain, descriptor, default): sets the default
\* keychain when `default` is true, then inserts the descriptor.
add_descriptor_default(keyring, keychain, input, default) ==
    LET descriptor == into_wallet_descriptor(input)
    IN  IF descriptor = "multipath"
        THEN [ok |-> FALSE, keyring |-> keyring]
        ELSE [ok |-> TRUE,
              keyring |-> [keyring EXCEPT
                  !.default_keychain = IF default THEN keychain ELSE @,
                  !.descriptors = Extend(@, [k \in {keychain} |-> descriptor])]]

\* KeyRing::set_default_keychain.
set_default_keychain(keyring, keychain) ==
    [keyring EXCEPT !.default_keychain = keychain]

\* The default keychain specification: a ring is constructed with new, then
\* descriptors are added with or without the default flag and the default
\* is set explicitly.
InitDefault ==
    /\ wallet = create_with_params(The(KeyRings))
    /\ persisted = EmptyChangeSet
    /\ db = EmptyDb
    /\ ring = NoDefaultRing
    /\ last = Call("none", NoneVal, TRUE, NoneVal)
    /\ ops = 0

DefaultNew ==
    /\ ops < MaxOps
    /\ ring = NoDefaultRing
    /\ \E network \in Networks, keychain \in RingKeychains, input \in DescriptorInputs :
          \E r \in {DefaultKeyRing_new(network, keychain, input)} :
              /\ ops' = ops + 1
              /\ ring' = r.keyring
              /\ last' = Call("new", [keychain |-> keychain, input |-> input],
                              r.ok, NoneVal)
              /\ UNCHANGED <<wallet, persisted, db>>

DefaultAddDescriptor ==
    /\ ops < MaxOps
    /\ ring # NoDefaultRing
    /\ \E keychain \in RingKeychains, input \in DescriptorInputs, default \in BOOLEAN :
          \E r \in {add_descriptor_default(ring, keychain, input, default)} :
              /\ ops' = ops + 1
              /\ ring' = r.keyring
              /\ last' = Call("add_descriptor",
                              [keychain |-> keychain, input |-> input,
                               default |-> default],
                              r.ok, NoneVal)
              /\ UNCHANGED <<wallet, persisted, db>>

DefaultSetDefault ==
    /\ ops < MaxOps
    /\ ring # NoDefaultRing
    /\ \E keychain \in RingKeychains :
          /\ ops' = ops + 1
          /\ ring' = set_default_keychain(ring, keychain)
          /\ last' = Call("set_default_keychain", [keychain |-> keychain], TRUE, NoneVal)
          /\ UNCHANGED <<wallet, persisted, db>>

NextDefault ==
    \/ DefaultNew
    \/ DefaultAddDescriptor
    \/ DefaultSetDefault

SpecDefault == InitDefault /\ [][NextDefault]_vars

\* The lock persistence specification: a wallet created on an empty SQLite
\* store, whose outpoints are locked and unlocked up to MaxOps times, and
\* which is persisted to and reloaded from the store at any time.  db holds
\* the keyring and locked outpoint tables, persisted the tables of bdk_chain.
\* A persist call is recorded with what the store held before it, a load
\* with the locked outpoints it read and, when it follows a persist, those
\* the store held before that persist.
PersistSqlite ==
    \E r \in {persist(wallet, persisted, [error |-> NoneVal, written |-> TRUE])} :
        /\ wallet' = r.wallet
        /\ persisted' = r.store
        /\ db' = IF r.persisted THEN persist_to_sqlite(db, wallet.stage) ELSE db
        /\ last' = Call("persist", from_sqlite(db), TRUE,
                        [persisted |-> r.persisted, error |-> NoneVal])
        /\ UNCHANGED <<ring, ops>>

LoadSqlite ==
    \E r \in {load([persisted EXCEPT
                      !.keyring = from_sqlite(db).keyring,
                      !.locked_outpoints = from_sqlite(db).locked_outpoints])} :
        /\ r.ok
        /\ wallet' = r.wallet
        /\ last' = Call("load",
                        [read |-> from_sqlite(db).locked_outpoints,
                         overwritten |-> IF last.op = "persist"
                                         THEN last.arg.locked_outpoints
                                         ELSE EmptyMap],
                        TRUE, <<>>)
        /\ UNCHANGED <<persisted, db, ring, ops>>

NextLock ==
    \/ LockOutpoint
    \/ UnlockOutpoint
    \/ PersistSqlite
    \/ LoadSqlite

SpecLock == InitPersist /\ [][NextLock]_vars

\* The address specification: a fresh wallet on which addresses are
\* revealed, handed out, marked used and unmarked, and to which unconfirmed
\* transactions are applied.
NextAddress ==
    \/ RevealNextAddress
    \/ NextUnusedAddress
    \/ MarkUsed
    \/ UnmarkUsed
    \/ CancelTx
    \/ ApplyUnconfirmedTxs

SpecAddress == Init /\ [][NextAddress]_vars

\* The merge specification: an aggregate changeset, empty at first, into
\* which up to MaxOps changesets are merged.  The changesets are keyring
\* changes (networks, bindings and default keychains that disagree
\* included), lock and unlock entries, chain changes (a block, another block
\* at its height, a disconnection), graph changes (a transaction, seen,
\* evicted or anchored at different times), index changes, and one changeset
\* with every part.
MergeInputs ==
    {[EmptyChangeSet EXCEPT !.keyring = k] :
        k \in {[EmptyKeyRingChangeSet EXCEPT !.network = n] : n \in Networks}
              \cup {[EmptyKeyRingChangeSet EXCEPT !.descriptors = d] :
                      d \in {[y \in {"k1"} |-> "d1"], [y \in {"k1"} |-> "d2"],
                             [y \in Keychains |-> IF y = "k1" THEN "d1" ELSE "d2"]}}
              \cup {[EmptyKeyRingChangeSet EXCEPT !.default_keychain = x] :
                      x \in Keychains}
              \cup {[network |-> "Regtest", descriptors |-> [y \in {"k1"} |-> "d1"],
                     default_keychain |-> "k1"]}}
    \cup {[EmptyChangeSet EXCEPT !.locked_outpoints = l] :
            l \in {[op \in {FundingOutPoint} |-> TRUE],
                   [op \in {FundingOutPoint} |-> FALSE],
                   [op \in LockableOutPoints |-> TRUE]}}
    \cup {[EmptyChangeSet EXCEPT !.local_chain = [h \in {1} |-> b]] :
            b \in Hashes \cup {NoneVal}}
    \cup {GraphChangeSet([EmptyGraph EXCEPT !.txs = {"T1"},
                                           !.last_seen = [t \in {"T1"} |-> n],
                                           !.first_seen = [t \in {"T1"} |-> n]]) :
            n \in Times}
    \cup {GraphChangeSet([EmptyGraph EXCEPT !.last_evicted = [t \in {"T1"} |-> n]]) :
            n \in Times}
    \cup {GraphChangeSet([EmptyGraph EXCEPT !.anchors = {<<<<1, b>>, "T1">>}]) :
            b \in Hashes}
    \cup {IndexerChangeSet([d \in {"d1"} |-> i]) : i \in Indices}
    \cup {[keyring |-> [network |-> "Regtest",
                        descriptors |-> [y \in {"k2"} |-> "d1"],
                        default_keychain |-> "k2"],
           local_chain |-> [h \in {1, 2} |-> "A"],
           tx_graph |-> [EmptyGraph EXCEPT !.txs = {"T1", "T2"},
                                           !.last_seen = [t \in {"T1", "T2"} |-> 1],
                                           !.first_seen = [t \in {"T1", "T2"} |-> 1],
                                           !.last_evicted = [t \in {"T2"} |-> MaxTime]],
           indexer |-> [d \in Descriptors |-> 0],
           locked_outpoints |-> [op \in LockableOutPoints |-> op = FundingOutPoint]]}

InitMerge ==
    /\ wallet = create_with_params(The(KeyRings))
    /\ persisted = EmptyChangeSet
    /\ db = EmptyDb
    /\ ring = NoRing
    /\ last = Call("default", EmptyChangeSet, TRUE, EmptyChangeSet)
    /\ ops = 0

\* Merge::merge(&mut aggregate, changeset); the call is recorded with the
\* changeset and the aggregate before.
MergeChangeSet ==
    /\ ops < MaxOps
    /\ \E cs \in MergeInputs :
          /\ ops' = ops + 1
          /\ persisted' = Merge(persisted, cs)
          /\ last' = Call("merge", cs, TRUE, persisted)
          /\ UNCHANGED <<wallet, db, ring>>

NextMerge == MergeChangeSet

SpecMerge == InitMerge /\ [][NextMerge]_vars

\* The load specification: changesets are merged into an aggregate as
\* above, and at any time a wallet is loaded from the aggregate.  The call
\* is recorded with the aggregate, the result of KeyRing::from_changeset on
\* its keyring part and the error of the load.
LoadChangeSet ==
    LET r == load_with_params(persisted)
    IN  /\ last.op # "load_with_params"
        /\ wallet' = IF r.ok THEN r.wallet ELSE wallet
        /\ last' = Call("load_with_params", persisted, r.ok,
                        [keyring |-> KeyRingFromChangeSet(persisted.keyring),
                         err |-> IF r.ok THEN NoneVal ELSE r.err])
        /\ UNCHANGED <<persisted, db, ring, ops>>

\* The create specification: a wallet is mutated and persisted, and at any
\* time PersistedWallet::create is called on the same persister with the
\* parameters of a fresh wallet, on the same or on another network.  A
\* create that succeeds replaces the wallet in hand.
CreateKeyRings ==
    {[network |-> n, descriptors |-> The(KeyRings).descriptors] : n \in Networks}

PersistedCreate ==
    \E kr \in CreateKeyRings, outcome \in PersistOutcomes :
        LET r == create(persisted, kr, outcome)
        IN  /\ ops < MaxOps
            /\ ops' = ops + 1
            /\ wallet' = IF r.some THEN r.wallet ELSE wallet
            /\ persisted' = r.store
            /\ last' = Call("create_persisted", kr, r.ok, r.err)
            /\ UNCHANGED <<db, ring>>

NextCreate ==
    \/ PersistedCreate
    \/ Persist
    \/ LockOutpoint
    \/ RevealNextAddress
    \/ ApplyUnconfirmedTxs

SpecCreate == Init /\ [][NextCreate]_vars

NextLoad ==
    \/ MergeChangeSet
    \/ LoadChangeSet

SpecLoad == InitMerge /\ [][NextLoad]_vars

\* The retry specification: a PersistedWallet that is mutated up to MaxOps
\* times and persisted at any time, without a restart.  A write may fail;
\* the caller retries a failed persist and the persister eventually
\* succeeds, which is weak fairness of the successful persist.
PersistOk ==
    /\ PersistCall([error |-> NoneVal, written |-> TRUE])
    /\ UNCHANGED ops

PersistErr ==
    /\ \E outcome \in {o \in PersistOutcomes : o.error # NoneVal} :
          PersistCall(outcome)
    /\ UNCHANGED ops

NextLive ==
    \/ RevealNextAddress
    \/ LockOutpoint
    \/ UnlockOutpoint
    \/ ApplyUnconfirmedTxs
    \/ ApplyBlock
    \/ PersistOk
    \/ PersistErr

SpecLive == Init /\ [][NextLive]_vars /\ WF_vars(PersistOk)

(***************************************************************************)
(* Properties.                                                             *)
(***************************************************************************)
\* What a call changed in memory, as a changeset: the checkpoints that
\* differ, the raised indices, the additions to the graph.
ChainDelta(c1, c2) == [h \in {x \in Heights : c1[x] # c2[x]} |-> c2[h]]

StateDelta(w1, w2) ==
    [EmptyChangeSet EXCEPT
        !.local_chain = ChainDelta(w1.chain, w2.chain),
        !.indexer = MapDiff(w1.last_revealed, w2.last_revealed),
        !.tx_graph = GraphDiff(w1.graph, w2.graph)]

\* C1: Wallet::apply_update is all-or-nothing.  When the chain update cannot
\* connect, the wallet (its stage, index and graph included) is what it was
\* before the call; otherwise the stage after the call is the stage before
\* it merged with the chain, index and graph changes the call made.
C1_ApplyUpdateAllOrNothing ==
    [][last'.op = "apply_update" =>
          IF last'.ok
          THEN wallet'.stage = Merge(wallet.stage, StateDelta(wallet, wallet'))
          ELSE wallet' = wallet]_vars

\* A failed apply_update whose update carried indices to reveal and a
\* transaction the wallet did not have.
C1_Witness ==
    /\ last.op = "apply_update"
    /\ ~last.ok
    /\ last.arg.tx_update.txs # {}
    /\ ~(last.arg.tx_update.txs \subseteq wallet.graph.txs)
    /\ \E k \in DOMAIN last.arg.last_active_indices :
          last.arg.last_active_indices[k] >
              LastRevealed(wallet.last_revealed, wallet.keyring.descriptors[k])

\* C2: when the persister's persist returns an error, PersistedWallet::persist
\* returns that same error and leaves the wallet, its stage included, as it
\* was; the stage changes in a persist call only when the write succeeded,
\* and it is then empty.
C2_PersistErrorKeepsStage ==
    [][last'.op = "persist" =>
          /\ (last'.arg.outcome.error # NoneVal /\ ~is_empty(wallet.stage)) =>
                /\ ~last'.ok
                /\ last'.ret.error = last'.arg.outcome.error
                /\ wallet' = wallet
          /\ wallet'.stage # wallet.stage =>
                /\ last'.ok
                /\ last'.arg.outcome.error = NoneVal
                /\ is_empty(wallet'.stage)]_vars

\* A persist that failed with changes staged.
C2_Witness ==
    /\ last.op = "persist"
    /\ ~last.ok
    /\ last.ret.error = "E1"
    /\ ~is_empty(wallet.stage)
    /\ wallet.stage.locked_outpoints # EmptyMap

\* C3: loading a wallet from merge(what was persisted, the stage) gives the
\* in-memory wallet: the same network and keychains, chain checkpoints,
\* last revealed indices, transaction graph and locked outpoints.
C3_StageMissesNothing ==
    LET l == load_with_params(Merge(persisted, wallet.stage))
    IN  /\ l.ok
        /\ l.wallet.keyring = wallet.keyring
        /\ l.wallet.chain = wallet.chain
        /\ l.wallet.last_revealed = wallet.last_revealed
        /\ l.wallet.graph = wallet.graph
        /\ l.wallet.locked_outpoints = wallet.locked_outpoints

\* After a persisted lock and a persisted chain, an unlock and a reorg are
\* staged on top of them.
C3_Witness ==
    /\ ~is_empty(persisted)
    /\ \/ \E op \in DOMAIN wallet.stage.locked_outpoints :
             /\ op \in DOMAIN persisted.locked_outpoints
             /\ persisted.locked_outpoints[op]
             /\ ~wallet.stage.locked_outpoints[op]
       \/ \E h \in DOMAIN wallet.stage.local_chain :
             /\ h \in DOMAIN persisted.local_chain
             /\ persisted.local_chain[h] # NoneVal
             /\ wallet.stage.local_chain[h] = NoneVal

\* The indices of the events of the given type about txid t in the last
\* call's return value.
EventsAbout(ret, type, t) ==
    {i \in DOMAIN ret : ret[i].type = type /\ ret[i].txid = t}

InputConflict(t, s) == t # s /\ SpentBy(t) \cap SpentBy(s) # {}

\* C4: Wallet::apply_evicted_txs records an eviction timestamp only for
\* txids that are canonical and unconfirmed at the time of the call.
C4_EvictOnlyCanonicalUnconfirmed ==
    [][last'.op = "apply_evicted_txs" =>
          \A t \in Txids :
              (t \in DOMAIN wallet'.graph.last_evicted
               /\ (t \notin DOMAIN wallet.graph.last_evicted
                   \/ wallet.graph.last_evicted[t] # wallet'.graph.last_evicted[t]))
              => /\ t \in DOMAIN list_canonical_txs(wallet.graph, wallet.chain)
                 /\ list_canonical_txs(wallet.graph, wallet.chain)[t].kind
                        = "Unconfirmed"]_vars

C6_ReplacedOrDropped ==
    [][(last'.op = "apply_update_events" /\ last'.ok) =>
          \A t \in (DOMAIN transactions(wallet)) \ (DOMAIN transactions(wallet')) :
              IF \E s \in DOMAIN transactions(wallet') : InputConflict(t, s)
              THEN /\ EventsAbout(last'.ret, "TxReplaced", t) # {}
                   /\ EventsAbout(last'.ret, "TxDropped", t) = {}
              ELSE /\ EventsAbout(last'.ret, "TxDropped", t) # {}
                   /\ EventsAbout(last'.ret, "TxReplaced", t) = {}]_vars

\* C7: when an update takes a confirmed transaction's anchor out of the best
\* chain, exactly one TxUnconfirmed event is emitted for it, with the old
\* anchor as old_block_time.
C7_ReorgUnconfirms ==
    [][(last'.op = "apply_update_events" /\ last'.ok) =>
          \A t \in DOMAIN transactions(wallet) :
              (/\ transactions(wallet)[t].kind = "Confirmed"
               /\ BestAnchors(wallet'.graph, wallet'.chain, t) = {})
              => /\ Cardinality(EventsAbout(last'.ret, "TxUnconfirmed", t)) = 1
                 /\ \A i \in EventsAbout(last'.ret, "TxUnconfirmed", t) :
                       last'.ret[i].old_block_time = transactions(wallet)[t].anchor]_vars

\* A reorg took the anchor of a confirmed transaction out of the best
\* chain and the transaction was reported with its old anchor.
C7_Witness ==
    /\ last.op = "apply_update_events"
    /\ last.ok
    /\ last.arg.chain # NoChain
    /\ \E i \in DOMAIN last.ret :
          /\ last.ret[i].type = "TxUnconfirmed"
          /\ last.ret[i].old_block_time # NoBlock
          /\ BestAnchors(wallet.graph, wallet.chain, last.ret[i].txid) = {}
          /\ <<last.ret[i].old_block_time, last.ret[i].txid>> \in wallet.graph.anchors

\* C7 (amended): when an update takes a confirmed transaction out of its
\* confirmed position and the transaction stays in the wallet's canonical
\* set as unconfirmed, exactly one TxUnconfirmed event is emitted for it,
\* with the anchor of its position before the update as old_block_time, and
\* no other event about it.
C7_ReorgUnconfirmsIfStillCanonical ==
    [][(last'.op = "apply_update_events" /\ last'.ok) =>
          \A t \in (DOMAIN transactions(wallet)) \cap (DOMAIN transactions(wallet')) :
              (/\ transactions(wallet)[t].kind = "Confirmed"
               /\ transactions(wallet')[t].kind = "Unconfirmed")
              => /\ Cardinality(EventsAbout(last'.ret, "TxUnconfirmed", t)) = 1
                 /\ \A i \in EventsAbout(last'.ret, "TxUnconfirmed", t) :
                       last'.ret[i].old_block_time = transactions(wallet)[t].anchor
                 /\ \A i \in DOMAIN last'.ret :
                       last'.ret[i].txid = t => last'.ret[i].type = "TxUnconfirmed"]_vars


\* The changeset a with the locked_outpoints entries that unlock removed.
WithoutUnlocks(a) ==
    [a EXCEPT !.locked_outpoints =
        Restrict(@, {op \in DOMAIN @ : a.locked_outpoints[op]})]

\* cs binds no keychain to a second descriptor and no descriptor to a second
\* keychain, within cs or against the stored changeset a, and its default
\* keychain (if any) has a descriptor in merge(a, cs).
BindsConsistently(a, cs) ==
    LET old == a.keyring.descriptors
        new == cs.keyring.descriptors
    IN  /\ \A k \in DOMAIN new :
            /\ k \in DOMAIN old => old[k] = new[k]
            /\ \A x \in DOMAIN old : old[x] = new[k] => x = k
            /\ \A x \in DOMAIN new : new[x] = new[k] => x = k
        /\ cs.keyring.default_keychain # NoneVal
             => cs.keyring.default_keychain \in DOMAIN old \cup DOMAIN new

PartOf(a, b) ==
    /\ a.keyring.network \in {NoneVal, b.keyring.network}
    /\ a.keyring.default_keychain \in {NoneVal, b.keyring.default_keychain}
    /\ DOMAIN a.keyring.descriptors \subseteq DOMAIN b.keyring.descriptors
    /\ \A k \in DOMAIN a.keyring.descriptors :
          a.keyring.descriptors[k] = b.keyring.descriptors[k]
    /\ DOMAIN a.locked_outpoints \subseteq DOMAIN b.locked_outpoints
    /\ \A op \in DOMAIN a.locked_outpoints :
          a.locked_outpoints[op] = b.locked_outpoints[op]

\* C9: persisting again the changeset that was just persisted, or any part
\* of it, leaves every table as it is, so initialize() returns what it
\* returned after the first persist.
C9_PersistAbsorbsDuplicates ==
    last.op = "persist_to_sqlite" =>
        \A cs \in SqlChangeSets :
            PartOf(cs, last.arg.changeset) =>
                /\ persist_to_sqlite(db, cs) = db
                /\ from_sqlite(persist_to_sqlite(db, cs)) = last.ret

\* A changeset with a descriptor, a default keychain and a lock was persisted
\* to a store that already held rows.
C9_Witness ==
    /\ last.op = "persist_to_sqlite"
    /\ ops >= 2
    /\ last.arg.before # EmptyChangeSet
    /\ last.arg.changeset.keyring.default_keychain # NoneVal
    /\ \E op \in DOMAIN last.arg.changeset.locked_outpoints :
          last.arg.changeset.locked_outpoints[op]
    /\ last.ret # last.arg.before

\* The store's aggregate reconstructs the in-memory wallet: every change
\* made by any earlier mutation is contained in it.
StoreHoldsWallet ==
    LET l == load(persisted)
    IN  /\ l.ok
        /\ l.wallet.keyring = wallet.keyring
        /\ l.wallet.chain = wallet.chain
        /\ l.wallet.last_revealed = wallet.last_revealed
        /\ l.wallet.graph = wallet.graph
        /\ l.wallet.locked_outpoints = wallet.locked_outpoints

\* C10: at-least-once persistence.  A step after which the stage no longer
\* holds all that it held is a successful persist that merged the whole
\* stage into the store and left the stage empty; and whenever changes are
\* staged, the stage eventually is empty with the store's aggregate holding
\* every change made to the wallet.
C10_AtLeastOncePersistence ==
    /\ [][Merge(wallet.stage, wallet'.stage) # wallet'.stage =>
            /\ last'.op = "persist"
            /\ last'.ok
            /\ last'.ret.persisted
            /\ persisted' = Merge(persisted, wallet.stage)
            /\ is_empty(wallet'.stage)]_vars
    /\ (~is_empty(wallet.stage)) ~> (is_empty(wallet.stage) /\ StoreHoldsWallet)

\* A retried persist succeeded after a failed one, with a lock and a block
\* in what it wrote.
C10_Witness ==
    /\ last.op = "persist"
    /\ last.ok
    /\ last.ret.persisted
    /\ last.arg.retry
    /\ is_empty(wallet.stage)
    /\ persisted.locked_outpoints # EmptyMap
    /\ TipHeight(wallet.chain) > 0
    /\ StoreHoldsWallet

\* C11: the derivation index is monotonic per keychain.  No call on the
\* wallet lowers the last revealed index of a descriptor, an apply_update
\* with a lower last_active_index included, and the index returned by
\* reveal_next_address is above every index revealed before.  (A restart
\* from the store is not a call on the wallet.)
C11_DerivationIndexMonotonic ==
    [][last'.op # "load" =>
          /\ \A d \in Descriptors :
                LastRevealed(wallet'.last_revealed, d)
                    >= LastRevealed(wallet.last_revealed, d)
          /\ last'.op = "reveal_next_address" =>
                /\ last'.ret > LastRevealed(wallet.last_revealed,
                                            wallet.keyring.descriptors[last'.arg])
                /\ last'.ret = LastRevealed(wallet'.last_revealed,
                                            wallet'.keyring.descriptors[last'.arg])]_vars

\* An apply_update succeeded whose last_active_indices named an index below
\* the one already revealed for that keychain.
C11_Witness ==
    /\ last.op = "apply_update"
    /\ last.ok
    /\ \E k \in DOMAIN last.arg.last_active_indices :
          last.arg.last_active_indices[k]
              < LastRevealed(wallet.last_revealed, wallet.keyring.descriptors[k])

\* The descriptor an add_descriptor call offers, after conversion, and
\* whether it passed validation.
Offered(call) == into_wallet_descriptor(call.arg.input)

OfferedValid(call) == check_wallet_descriptor(Offered(call))

\* C12: in every KeyRing reachable through new, new_with_descriptors and
\* add_descriptor calls, successful or failed, no two distinct keychains are
\* bound to the same descriptor.
C12_NoSharedDescriptor ==
    \A k1 \in DOMAIN ring.descriptors, k2 \in DOMAIN ring.descriptors :
        ring.descriptors[k1] = ring.descriptors[k2] => k1 = k2

\* A ring of two entries that has just refused a descriptor it already
\* holds under another keychain.
C12_Witness ==
    /\ last.op = "add_descriptor" /\ ~last.ok
    /\ Cardinality(DOMAIN ring.descriptors) = 2
    /\ \E k \in DOMAIN ring.descriptors :
          k # last.arg.keychain /\ ring.descriptors[k] = Offered(last)

\* C13 as stated: add_descriptor(keychain, descriptor) fails with
\* DescAlreadyExists whenever the descriptor is already bound in the ring to
\* a different keychain.
C13_DescAlreadyExistsWhenever ==
    [][(/\ last'.op = "add_descriptor"
        /\ \E k \in DOMAIN ring.descriptors :
              k # last'.arg.keychain /\ ring.descriptors[k] = Offered(last'))
       => (~last'.ok /\ last'.ret = "DescAlreadyExists")]_vars

\* C13, amended: such a call always fails, and with DescAlreadyExists
\* unless the keychain is itself bound to a different descriptor and sorts
\* before the keychain that holds the descriptor; then the entry of the
\* keychain is met first and the error is KeychainAlreadyExists.
C13_DescAlreadyExistsUnlessKeychainFirst ==
    [][\A k \in DOMAIN ring.descriptors :
          (/\ last'.op = "add_descriptor"
           /\ k # last'.arg.keychain
           /\ ring.descriptors[k] = Offered(last'))
          => /\ ~last'.ok
             /\ last'.ret =
                  IF /\ last'.arg.keychain \in DOMAIN ring.descriptors
                     /\ KeychainRank(last'.arg.keychain) < KeychainRank(k)
                  THEN "KeychainAlreadyExists"
                  ELSE "DescAlreadyExists"]_vars

\* A call whose descriptor is held by a keychain sorting before the call's
\* keychain, itself bound to another descriptor: refused with
\* DescAlreadyExists.
C13_Witness ==
    /\ last.op = "add_descriptor" /\ ~last.ok
    /\ last.ret = "DescAlreadyExists"
    /\ last.arg.keychain \in DOMAIN ring.descriptors
    /\ \E k \in DOMAIN ring.descriptors :
          /\ k # last.arg.keychain
          /\ ring.descriptors[k] = Offered(last)
          /\ KeychainRank(k) < KeychainRank(last.arg.keychain)

\* C14 as stated: add_descriptor(keychain, descriptor) fails with
\* KeychainAlreadyExists whenever the keychain is already bound in the ring
\* to a different descriptor.
C14_KeychainAlreadyExistsWhenever ==
    [][(/\ last'.op = "add_descriptor"
        /\ OfferedValid(last')
        /\ last'.arg.keychain \in DOMAIN ring.descriptors
        /\ ring.descriptors[last'.arg.keychain] # Offered(last'))
       => (~last'.ok /\ last'.ret = "KeychainAlreadyExists")]_vars

\* C14, amended: such a call with a valid descriptor always fails, and with
\* KeychainAlreadyExists unless the descriptor is bound to another keychain
\* that sorts before the call's keychain; then that entry is met first and
\* the error is DescAlreadyExists.
C14_KeychainAlreadyExistsUnlessDescFirst ==
    [][(/\ last'.op = "add_descriptor"
        /\ OfferedValid(last')
        /\ last'.arg.keychain \in DOMAIN ring.descriptors
        /\ ring.descriptors[last'.arg.keychain] # Offered(last'))
       => /\ ~last'.ok
          /\ last'.ret =
               IF \E k \in DOMAIN ring.descriptors :
                     /\ ring.descriptors[k] = Offered(last')
                     /\ KeychainRank(k) < KeychainRank(last'.arg.keychain)
               THEN "DescAlreadyExists"
               ELSE "KeychainAlreadyExists"]_vars

\* A call whose keychain is bound to another descriptor and sorts before
\* the keychain that holds the offered descriptor: refused with
\* KeychainAlreadyExists.
C14_Witness ==
    /\ last.op = "add_descriptor" /\ ~last.ok
    /\ last.ret = "KeychainAlreadyExists"
    /\ last.arg.keychain \in DOMAIN ring.descriptors
    /\ ring.descriptors[last.arg.keychain] # Offered(last)
    /\ \E k \in DOMAIN ring.descriptors :
          /\ ring.descriptors[k] = Offered(last)
          /\ KeychainRank(last.arg.keychain) < KeychainRank(k)

C16_LockedSetMirrorsChangesets ==
    /\ [](\A op \in OutPoints :
            LET recorded == Merge(persisted, wallet.stage).locked_outpoints
            IN  is_outpoint_locked(wallet, op)
                    <=> (op \in DOMAIN recorded /\ recorded[op]))
    /\ [][/\ (last'.op = "lock_outpoint" /\ ~is_outpoint_locked(wallet, last'.arg))
              => /\ last'.arg \in DOMAIN wallet'.stage.locked_outpoints
                 /\ wallet'.stage.locked_outpoints[last'.arg]
          /\ (last'.op = "unlock_outpoint" /\ is_outpoint_locked(wallet, last'.arg))
              => /\ last'.arg \in DOMAIN wallet'.stage.locked_outpoints
                 /\ ~wallet'.stage.locked_outpoints[last'.arg]]_vars

\* An outpoint whose lock was persisted has just been unlocked: the store
\* still says true, the stage says false, and it is not locked.
C16_Witness ==
    /\ last.op = "unlock_outpoint"
    /\ last.arg \in DOMAIN persisted.locked_outpoints
    /\ persisted.locked_outpoints[last.arg]
    /\ last.arg \in DOMAIN wallet.stage.locked_outpoints
    /\ ~wallet.stage.locked_outpoints[last.arg]
    /\ ~is_outpoint_locked(wallet, last.arg)

\* C17: lock state survives persistence.  A wallet reloaded from the store
\* when everything staged has been persisted reports exactly the outpoints
\* locked that were locked before the reload: an outpoint locked and
\* persisted is still locked, an outpoint then unlocked and persisted is no
\* longer locked, and neither the store nor the locked set holds it.
C17_LockStateSurvivesReload ==
    [][(last'.op = "load" /\ is_empty(wallet.stage))
          => /\ \A op \in OutPoints :
                   is_outpoint_locked(wallet', op) <=> is_outpoint_locked(wallet, op)
             /\ wallet'.locked_outpoints = DOMAIN last'.arg.read]_vars

\* A reload after the unlock of an outpoint whose lock the store held was
\* persisted, with another outpoint still locked: the unlocked outpoint has
\* no row in the store any more and is not locked.
C17_Witness ==
    /\ last.op = "load"
    /\ \E op \in DOMAIN last.arg.overwritten :
          /\ ~persisted.locked_outpoints[op]
          /\ op \notin db.locks
          /\ ~is_outpoint_locked(wallet, op)
    /\ \E op \in DOMAIN persisted.locked_outpoints :
          /\ persisted.locked_outpoints[op]
          /\ is_outpoint_locked(wallet, op)

\* C18: changeset merge is associative at every level (keyring, locked
\* outpoints, the top-level wallet changeset): for an aggregate A and
\* changesets B, C, merge(merge(A, B), C) = merge(A, merge(B, C)).
C18_MergeAssociative ==
    [][last'.op = "merge" =>
          \A B \in MergeInputs :
             /\ Merge(Merge(persisted, B), last'.arg) = Merge(persisted, Merge(B, last'.arg))
             /\ KeyRingMerge(KeyRingMerge(persisted.keyring, B.keyring), last'.arg.keyring)
                  = KeyRingMerge(persisted.keyring,
                                 KeyRingMerge(B.keyring, last'.arg.keyring))
             /\ Extend(Extend(persisted.locked_outpoints, B.locked_outpoints),
                       last'.arg.locked_outpoints)
                  = Extend(persisted.locked_outpoints,
                           Extend(B.locked_outpoints, last'.arg.locked_outpoints))]_vars

\* An aggregate that holds a network, a default keychain, a lock entry and
\* a last-seen time, into which a changeset that disagrees on the default
\* keychain has just been merged.
C18_Witness ==
    /\ last.op = "merge"
    /\ last.ret.keyring.network # NoneVal
    /\ last.ret.keyring.default_keychain # NoneVal
    /\ last.arg.keyring.default_keychain # NoneVal
    /\ last.arg.keyring.default_keychain # last.ret.keyring.default_keychain
    /\ last.ret.locked_outpoints # EmptyMap
    /\ last.ret.tx_graph.last_seen # EmptyMap

At(m, t) == IF t \in DOMAIN m THEN m[t] ELSE 0

Later(a, b) == IF a >= b THEN a ELSE b

\* C20 as stated, for one call: after apply_unconfirmed_txs or a successful
\* apply_update, the recorded last_seen (last_evicted) of every txid the
\* call supplied a timestamp for is the maximum of that timestamp and the
\* one recorded before.
C20_MaxOfAllSupplied ==
    [][/\ last'.op = "apply_unconfirmed_txs" =>
            \A t \in DOMAIN last'.arg :
                At(wallet'.graph.last_seen, t)
                    = Later(At(wallet.graph.last_seen, t), last'.arg[t])
       /\ (last'.op = "apply_update" /\ last'.ok) =>
            /\ \A t \in DOMAIN last'.arg.tx_update.seen_ats :
                  At(wallet'.graph.last_seen, t)
                      = Later(At(wallet.graph.last_seen, t),
                              last'.arg.tx_update.seen_ats[t])
            /\ \A t \in DOMAIN last'.arg.tx_update.evicted_ats :
                  At(wallet'.graph.last_evicted, t)
                      = Later(At(wallet.graph.last_evicted, t),
                              last'.arg.tx_update.evicted_ats[t])]_vars

\* C20, amended: the timestamps that are recorded merge by max-wins.  An
\* apply_update that succeeds and an apply_unconfirmed_txs record, for every
\* txid they supply a timestamp for (apply_unconfirmed_txs: for the
\* transactions relevant to the wallet), the maximum of that timestamp and
\* the one recorded before; a failed apply_update and the timestamp of an
\* irrelevant transaction record nothing.  No call on the wallet lowers a
\* recorded last_seen or last_evicted, and the wallet's timestamps are at
\* all times those of merge(persisted aggregate, stage).
C20_RecordedTimestampsMaxWins ==
    /\ [](/\ wallet.graph.last_seen
               = Merge(persisted, wallet.stage).tx_graph.last_seen
          /\ wallet.graph.last_evicted
               = Merge(persisted, wallet.stage).tx_graph.last_evicted)
    /\ [][/\ last'.op = "apply_unconfirmed_txs" =>
               \A t \in DOMAIN last'.arg :
                   At(wallet'.graph.last_seen, t)
                     = IF is_tx_relevant(wallet'.keyring.descriptors, wallet'.last_revealed,
                             [wallet.graph EXCEPT !.txs = @ \cup DOMAIN last'.arg], t)
                       THEN Later(At(wallet.graph.last_seen, t), last'.arg[t])
                       ELSE At(wallet.graph.last_seen, t)
          /\ last'.op = "apply_update" =>
               /\ \A t \in DOMAIN last'.arg.tx_update.seen_ats :
                     At(wallet'.graph.last_seen, t)
                       = IF last'.ok
                         THEN Later(At(wallet.graph.last_seen, t),
                                    last'.arg.tx_update.seen_ats[t])
                         ELSE At(wallet.graph.last_seen, t)
               /\ \A t \in DOMAIN last'.arg.tx_update.evicted_ats :
                     At(wallet'.graph.last_evicted, t)
                       = IF last'.ok
                         THEN Later(At(wallet.graph.last_evicted, t),
                                    last'.arg.tx_update.evicted_ats[t])
                         ELSE At(wallet.graph.last_evicted, t)
          /\ last'.op # "load" =>
               \A t \in Txids :
                  /\ At(wallet'.graph.last_seen, t) >= At(wallet.graph.last_seen, t)
                  /\ At(wallet'.graph.last_evicted, t) >= At(wallet.graph.last_evicted, t)]_vars

\* A call has supplied an earlier timestamp for a relevant transaction than
\* the one the wallet records for it.
C20_Witness ==
    /\ last.op = "apply_unconfirmed_txs"
    /\ \E t \in DOMAIN last.arg :
          /\ t \in wallet.graph.txs
          /\ At(wallet.graph.last_seen, t) > last.arg[t]

\* C21: the default changeset is the identity of merge and is exactly what
\* is_empty detects: for every changeset A (every aggregate and every
\* changeset merged into it), merge(A, Default) = A = merge(Default, A), and
\* is_empty(A) iff A = Default; the same for the keyring changeset.
C21_DefaultIsIdentity ==
    \A A \in {persisted, last.arg, last.ret} :
        /\ Merge(A, EmptyChangeSet) = A
        /\ Merge(EmptyChangeSet, A) = A
        /\ is_empty(A) <=> A = EmptyChangeSet
        /\ KeyRingMerge(A.keyring, EmptyKeyRingChangeSet) = A.keyring
        /\ KeyRingMerge(EmptyKeyRingChangeSet, A.keyring) = A.keyring
        /\ KeyRingIsEmpty(A.keyring) <=> A.keyring = EmptyKeyRingChangeSet

\* An aggregate that is not empty although it locks nothing and binds
\* nothing: all it holds is an unlock marker.
C21_Witness ==
    /\ last.op = "merge"
    /\ ~is_empty(persisted)
    /\ persisted.locked_outpoints # EmptyMap
    /\ \A op \in DOMAIN persisted.locked_outpoints : ~persisted.locked_outpoints[op]
    /\ [persisted EXCEPT !.locked_outpoints = EmptyMap] = EmptyChangeSet

\* The place of an event type in the order of the list: the tip event, the
\* confirmation transitions, the replaced and dropped transactions.
EventClass(type) ==
    CASE type = "ChainTipChanged" -> 1
      [] type \in {"TxConfirmed", "TxUnconfirmed"} -> 2
      [] OTHER -> 3

\* C22: in the list returned by the event diff, the ChainTipChanged event
\* (if any) precedes every transaction event, and every TxConfirmed /
\* TxUnconfirmed event precedes every TxReplaced / TxDropped event.
C22_EventOrder ==
    last.op = "apply_update_events" =>
        \A i \in DOMAIN last.ret, j \in DOMAIN last.ret :
            i < j => EventClass(last.ret[i].type) <= EventClass(last.ret[j].type)

\* An event list with a tip change, a confirmation transition and a
\* replaced or dropped transaction.
C22_Witness ==
    /\ last.op = "apply_update_events"
    /\ \A c \in 1 .. 3 : \E i \in DOMAIN last.ret : EventClass(last.ret[i].type) = c

\* C23: the event diff contains a ChainTipChanged event iff the chain tip
\* (height and hash) after the operation differs from the tip before it,
\* and the event names the two tips.
C23_TipEventIffTipDiffers ==
    [][last'.op = "apply_update_events" =>
          /\ (\E i \in DOMAIN last'.ret : last'.ret[i].type = "ChainTipChanged")
                <=> Tip(wallet'.chain) # Tip(wallet.chain)
          /\ \A i \in DOMAIN last'.ret :
                last'.ret[i].type = "ChainTipChanged" =>
                    /\ last'.ret[i].block_time = Tip(wallet'.chain)
                    /\ last'.ret[i].old_block_time = Tip(wallet.chain)]_vars

\* A tip event for a tip that kept its height and changed its hash.
C23_Witness ==
    /\ last.op = "apply_update_events"
    /\ \E i \in DOMAIN last.ret :
          /\ last.ret[i].type = "ChainTipChanged"
          /\ last.ret[i].block_time = Tip(wallet.chain)
          /\ last.ret[i].block_time[1] = last.ret[i].old_block_time[1]
          /\ last.ret[i].block_time[1] > 0

\* C24: for a transaction that is Confirmed both before and after an
\* operation but with a different anchor, the event diff emits TxConfirmed
\* for it with block_time equal to the new anchor and old_block_time equal
\* to the previous anchor, and no other event about it.
C24_ReanchoredTxConfirmed ==
    [][(last'.op = "apply_update_events" /\ last'.ok) =>
          \A t \in (DOMAIN transactions(wallet)) \cap (DOMAIN transactions(wallet')) :
              (/\ transactions(wallet)[t].kind = "Confirmed"
               /\ transactions(wallet')[t].kind = "Confirmed"
               /\ transactions(wallet)[t].anchor # transactions(wallet')[t].anchor)
              => /\ \E i \in DOMAIN last'.ret :
                       /\ last'.ret[i].type = "TxConfirmed"
                       /\ last'.ret[i].txid = t
                       /\ last'.ret[i].block_time = transactions(wallet')[t].anchor
                       /\ last'.ret[i].old_block_time = transactions(wallet)[t].anchor
                 /\ Cardinality({i \in DOMAIN last'.ret : last'.ret[i].txid = t}) = 1]_vars

\* A TxConfirmed event that names a previous anchor, for a transaction now
\* confirmed by another block.
C24_Witness ==
    /\ last.op = "apply_update_events"
    /\ last.ok
    /\ \E i \in DOMAIN last.ret :
          /\ last.ret[i].type = "TxConfirmed"
          /\ last.ret[i].old_block_time # NoBlock
          /\ last.ret[i].old_block_time # last.ret[i].block_time
          /\ transactions(wallet)[last.ret[i].txid].anchor = last.ret[i].block_time

\* The revealed indices of keychain k that no indexed output pays.
RevealedWithoutOutput(w, k) ==
    {i \in 0 .. LastRevealed(w.last_revealed, w.keyring.descriptors[k]) :
        ~SpkUsed(w, k, i)}

\* What next_unused_address(k) does when the candidates are cand: it
\* returns the lowest candidate and reveals nothing, or, without a
\* candidate, reveals the next index and returns it.
ReturnsLowestOf(cand, k) ==
    LET d == wallet.keyring.descriptors[k]
    IN  IF cand # {}
        THEN /\ last'.ret \in cand
             /\ \A j \in cand : last'.ret <= j
             /\ wallet'.last_revealed = wallet.last_revealed
        ELSE /\ last'.ret = LastRevealed(wallet.last_revealed, d) + 1
             /\ LastRevealed(wallet'.last_revealed, d) = last'.ret

AggregateChain == Merge(persisted, wallet.stage).local_chain

\* C27 as stated: in every reachable wallet state the local chain has a
\* height-0 checkpoint whose hash is the genesis hash the wallet was created
\* with, and the aggregate of the persisted and staged changesets contains
\* that block.
C27_GenesisHashKept ==
    /\ wallet.chain[0] = GenesisHash
    /\ 0 \in DOMAIN AggregateChain
    /\ AggregateChain[0] = GenesisHash

\* C27: in every reachable wallet state the local chain has a height-0
\* checkpoint and the aggregate of the persisted and staged changesets
\* contains that block; its hash changes only when a successful
\* apply_update or apply_block brings another block at height 0, or when a
\* load returns to the persisted one.
C27_GenesisAlwaysPresent ==
    /\ wallet.chain[0] # NoneVal
    /\ 0 \in DOMAIN AggregateChain
    /\ AggregateChain[0] = wallet.chain[0]
    /\ [][wallet'.chain[0] # wallet.chain[0] =>
            \/ /\ last'.op \in {"apply_update", "apply_update_events", "apply_block"}
               /\ last'.ok
            \/ /\ last'.op = "load"
               /\ wallet'.chain[0] = persisted.local_chain[0]]_vars

\* A re-org was applied, part of the chain is persisted and part staged,
\* and the genesis block is in place.
C27_Witness ==
    /\ wallet.chain[0] = GenesisHash
    /\ persisted.local_chain # EmptyMap
    /\ wallet.stage.local_chain # EmptyMap
    /\ 0 \notin DOMAIN wallet.stage.local_chain
    /\ \E h \in DOMAIN wallet.stage.local_chain :
          /\ h \in DOMAIN persisted.local_chain
          /\ persisted.local_chain[h] # wallet.stage.local_chain[h]

\* C28: KeyRing::from_changeset returns Ok(None) only when the changeset
\* has no network, no descriptors and no default keychain; every other
\* changeset yields a KeyRing or an error, and load_with_params reports
\* EmptyKeyring exactly for the Ok(None) of a non-empty wallet changeset.
C28_NoneOnlyWhenEmpty ==
    last.op = "load_with_params" =>
        LET cs == last.arg.keyring
            r == last.ret.keyring
            none == r.ok /\ r.none
        IN  /\ none <=> (/\ cs.network = NoneVal
                         /\ DOMAIN cs.descriptors = {}
                         /\ cs.default_keychain = NoneVal)
            /\ (~none /\ r.ok) => /\ r.keyring.network = cs.network
                                  /\ r.keyring.descriptors = cs.descriptors
            /\ last.ret.err = "EmptyKeyring" <=> (none /\ last.arg # EmptyChangeSet)

\* from_changeset was given a changeset with descriptors or a default
\* keychain and no network, and returned an error.
C28_Witness ==
    /\ last.op = "load_with_params"
    /\ last.arg.keyring.network = NoneVal
    /\ last.arg.keyring # EmptyKeyRingChangeSet
    /\ ~last.ret.keyring.ok
    /\ last.ret.err = "MissingNetwork"

C30_CreateRefusesExistingData ==
    [][(last'.op = "create_persisted" /\ persisted # EmptyChangeSet) =>
          /\ ~last'.ok
          /\ last'.ret = "DataAlreadyExists"
          /\ persisted' = persisted
          /\ wallet' = wallet]_vars

\* create was refused on a persister that holds the data of a wallet on
\* another network, with more than its initial changeset.
C30_Witness ==
    /\ last.op = "create_persisted"
    /\ last.ret = "DataAlreadyExists"
    /\ persisted.keyring.network # last.arg.network
    /\ \/ persisted.locked_outpoints # EmptyMap
       \/ persisted.indexer # EmptyMap
       \/ persisted.tx_graph # EmptyGraph

\* C40: lock_outpoint on an outpoint that is already locked, and
\* unlock_outpoint on an outpoint that is not locked, change neither the
\* locked-outpoint set nor the staged changeset.
C40_RedundantLockChangesNothing ==
    [][/\ (last'.op = "lock_outpoint" /\ is_outpoint_locked(wallet, last'.arg))
            => /\ wallet'.locked_outpoints = wallet.locked_outpoints
               /\ wallet'.stage = wallet.stage
       /\ (last'.op = "unlock_outpoint" /\ ~is_outpoint_locked(wallet, last'.arg))
            => /\ wallet'.locked_outpoints = wallet.locked_outpoints
               /\ wallet'.stage = wallet.stage]_vars

\* lock_outpoint was called for an outpoint whose lock is persisted: it is
\* locked and the stage holds nothing about it.
C40_Witness ==
    /\ last.op = "lock_outpoint"
    /\ is_outpoint_locked(wallet, last.arg)
    /\ last.arg \in DOMAIN persisted.locked_outpoints
    /\ persisted.locked_outpoints[last.arg]
    /\ wallet.stage.locked_outpoints = EmptyMap

\* C34: a single event diff contains at most one transaction event
\* (TxConfirmed, TxUnconfirmed, TxReplaced or TxDropped) per txid.
C34_OneEventPerTxid ==
    last.op = "apply_update_events" =>
        \A i \in DOMAIN last.ret, j \in DOMAIN last.ret :
            (/\ i # j
             /\ last.ret[i].type # "ChainTipChanged"
             /\ last.ret[j].type # "ChainTipChanged")
            => last.ret[i].txid # last.ret[j].txid

\* An event diff with a status event for one transaction and a replaced or
\* dropped event for another.
C34_Witness ==
    /\ last.op = "apply_update_events"
    /\ \E i \in DOMAIN last.ret, j \in DOMAIN last.ret :
          /\ last.ret[i].type \in {"TxConfirmed", "TxUnconfirmed"}
          /\ last.ret[j].type \in {"TxReplaced", "TxDropped"}
          /\ last.ret[i].txid \in Txids
          /\ last.ret[j].txid \in Txids

\* C33: if apply_block fails to connect the header of the block to the
\* local chain, the wallet is left unchanged: no transaction or anchor of
\* the block is inserted into the graph, the chain is not modified and
\* nothing is staged.
C33_FailedBlockChangesNothing ==
    [][(last'.op = "apply_block" /\ ~last'.ok) =>
          /\ wallet'.graph = wallet.graph
          /\ wallet'.chain = wallet.chain
          /\ wallet'.stage = wallet.stage
          /\ wallet' = wallet
          /\ persisted' = persisted]_vars

\* A block with a wallet transaction that the graph does not hold was
\* refused, on a wallet with a block above the genesis.
C33_Witness ==
    /\ last.op = "apply_block"
    /\ ~last.ok
    /\ "T1" \in last.arg[1].txs
    /\ "T1" \notin wallet.graph.txs
    /\ TipHeight(wallet.chain) >= 1

\* C36: merging keyring changesets never rebinds a keychain: if the
\* aggregate binds keychain k to descriptor d, then after merging any
\* further changeset k is still bound to d.
C36_MergeNeverRebinds ==
    [][last'.op = "persist_to_sqlite" =>
          \A k \in DOMAIN persisted.keyring.descriptors :
              /\ k \in DOMAIN persisted'.keyring.descriptors
              /\ persisted'.keyring.descriptors[k] = persisted.keyring.descriptors[k]]_vars


C37_LoadedRingHasKeychain ==
    last.op = "load_with_params" =>
        /\ (last.ret.keyring.ok /\ ~last.ret.keyring.none)
              => DOMAIN last.ret.keyring.keyring.descriptors # {}
        /\ last.ok => DOMAIN wallet.keyring.descriptors # {}
        /\ (~KeyRingIsEmpty(last.arg.keyring)
              /\ DOMAIN last.arg.keyring.descriptors = {}) => ~last.ok

\* C39: the default keychain always names a keychain that is present in the
\* descriptor map, also after any persist and reload: a store whose default
\* names one of its keychains still has a default that names one of its
\* keychains after any further changeset is persisted, and so has the
\* aggregate changeset.
C39_DefaultStaysPresent ==
    [][last'.op = "persist_to_sqlite" =>
          LET stored == from_sqlite(db).keyring
              stored2 == from_sqlite(db').keyring
          IN  /\ stored.default_keychain \in DOMAIN stored.descriptors
                    => stored2.default_keychain \in DOMAIN stored2.descriptors
              /\ persisted.keyring.default_keychain
                       \in DOMAIN persisted.keyring.descriptors
                    => persisted'.keyring.default_keychain
                          \in DOMAIN persisted'.keyring.descriptors]_vars

\* C31: the default keychain is the keychain given at construction and
\* changes only when add_descriptor is called with the default flag set or
\* when the default is set explicitly: adding descriptors without the flag
\* leaves default_keychain() unchanged.
C31_DefaultChangesOnlyOnRequest ==
    [][/\ (last'.op = "new" /\ last'.ok)
             => /\ ring'.default_keychain = last'.arg.keychain
                /\ DOMAIN ring'.descriptors = {last'.arg.keychain}
       /\ (last'.op = "add_descriptor" /\ ~last'.arg.default)
             => ring'.default_keychain = ring.default_keychain
       /\ ring'.default_keychain # ring.default_keychain
             => /\ last'.ok
                /\ ring'.default_keychain = last'.arg.keychain
                /\ \/ last'.op = "new"
                   \/ last'.op = "add_descriptor" /\ last'.arg.default
                   \/ last'.op = "set_default_keychain"]_vars

\* Two descriptors were added without the default flag to a ring built on
\* another keychain, which is still the default.
C31_Witness ==
    /\ last.op = "add_descriptor"
    /\ last.ok
    /\ ~last.arg.default
    /\ Cardinality(DOMAIN ring.descriptors) = 3
    /\ ring.default_keychain # last.arg.keychain
    /\ ring.default_keychain \in DOMAIN ring.descriptors

C32_AnyOrderSameStatus ==
    last.op = "seen_and_evicted" =>
        /\ last.ret["seen_first"] = last.ret["update"]
        /\ last.ret["evicted_first"] = last.ret["update"]

\* C32, amended: for a transaction relevant to the wallet, one apply_update
\* and apply_unconfirmed_txs followed by apply_evicted_txs end with the same
\* canonical status; apply_evicted_txs followed by apply_unconfirmed_txs
\* ends with that status when the transaction was canonical before the
\* calls, and when it was not the eviction is discarded and the status is
\* that of apply_unconfirmed_txs alone.
C32_OrderIndependentWhenCanonical ==
    last.op = "seen_and_evicted" =>
        /\ last.arg.relevant => last.ret["seen_first"] = last.ret["update"]
        /\ (last.arg.relevant /\ last.arg.was # "None")
              => last.ret["evicted_first"] = last.ret["update"]
        /\ last.arg.was = "None"
              => last.ret["evicted_first"] = last.ret["seen_only"]

\* An unconfirmed canonical transaction was evicted first and seen second,
\* at a time no later than the eviction: it left the canonical set, as on
\* the other two paths, while the seen-at time alone would have kept it.
C32_Witness ==
    /\ last.op = "seen_and_evicted"
    /\ last.arg.path = "evicted_first"
    /\ last.arg.relevant
    /\ last.arg.was = "Unconfirmed"
    /\ last.arg.evicted_at >= last.arg.seen_at
    /\ last.ret["seen_only"] = "Unconfirmed"
    /\ last.ret["update"] = "None"
    /\ last.ret["seen_first"] = "None"
    /\ last.ret["evicted_first"] = "None"
    /\ CanonicalStatus(wallet, last.arg.txid) = "None"
=============================================================================
